---- MODULE Spec2Model ----
(***************************************************************************)
(* VonSim: the programmable interrupt controller (PIC) slice, the CPU      *)
(* state it dispatches into, and the INT instruction's event generator.    *)
(*                                                                         *)
(*   Spec     the PIC (request / cancel / update and the register writes   *)
(*            a program makes) together with the CPU registers, FLAGS and  *)
(*            memory that update() pushes to and jumps through.            *)
(*   SpecINT  the INT n instruction, one step per suspension point of its  *)
(*            generator, with PIC update() running between instructions.   *)
(*   SpecLines      request / cancel on all eight lines of the PIC.        *)
(*   SpecAddresses  the analyzer's computeAddresses, one step per          *)
(*                  statement of the list.                                 *)
(*   SpecALU        executeArithmetic and executeLogical of the computer   *)
(*                  store.                                                 *)
(*   SpecByte       Byte.fromUnsigned and Byte.fromSigned.                 *)
(*   SpecValidate   validateBinaryInstruction and validateUnaryInstruction *)
(*                  of the analyzer, one call each.                        *)
(*   SpecIntInstruction  the assembler's IntInstruction object and the     *)
(*                  analyzer's validateIntInstruction.                     *)
(*   SpecParser     Parser.parseTokens, one call on the tokens of a        *)
(*                  program.                                               *)
(*   SpecEqu        the compiler's checkLoopsInLabels, one call.           *)
(*   SpecMemory     getMemory and setMemory of the computer store.         *)
(*   SpecRegisters  getRegister and setRegister of the computer store.     *)
(*   SpecSimulator  the Simulator object: loadProgram, getComputerState,   *)
(*                  startCPU, the devices object and its pokes.            *)
(*   SpecKeys       the switches of the web application (KeysUI).          *)
(*   SpecLive       the PIC with update() called fairly, for what          *)
(*                  eventually happens.                                    *)
(*   SpecHelpers    unsignedToSigned and signedToUnsigned.                 *)
(***************************************************************************)
EXTENDS Integers, Sequences, FiniteSets, TLC

VARIABLES
    pic,         \* devices.pic: [EOI, IMR, IRR, ISR, INT (INT0..INT7)]
    registers,   \* [IP, SP, AX, BX, IR, ri, id]
    FLAGS,       \* [carry, zero, sign, overflow, interrupt]; interrupt is IF (interruptsEnabled)
    memory,      \* sparse image of the RAM: address -> byte, absent cells are 0
    last,        \* the operation that acted last, its argument and its outcome
    eoiFresh,    \* history: 20h was written to EOI and update() has not run since
    pc,          \* position of the INT instruction's generator ("idle" between instructions)
    number,      \* this.number of the INT instruction being executed
    local,       \* locals of INTInstruction.execute: [address, char, start, length, i]
    events,      \* the events yielded by the instruction being executed
    entry,       \* history: FLAGS, registers and memory when the instruction started
    analysis,    \* computeAddresses: its locals, the statements seen and its result
    alu,         \* the ALU of the computer store: [left, right, result, operation, flags]
    returned,    \* what the last call of a function of the assembler returned or threw
    instruction, \* the statement object being assembled: [operands, initialValue, value]
    simulator,   \* the Simulator object: its computers, the one loaded, what was handed out
    keys         \* the switches of the web application: [value] and the ports [PA, CA]

vars == <<pic, registers, FLAGS, memory, last, eoiFresh, pc, number, local, events, entry,
          analysis, alu, returned, instruction, simulator, keys>>

\* the machine: PIC, CPU, memory and the instruction being executed
machineVars == <<pic, registers, FLAGS, memory, last, eoiFresh, pc, number, local, events, entry>>

\* what the machine's steps leave alone: the analyzer, the ALU and the
\* functions of the assembler
otherVars == <<analysis, alu, returned, instruction, simulator, keys>>

intVars == <<pc, number, local, events, entry, otherVars>>

\* no function of the assembler has been called, no statement object made
NoReturn == [type |-> "none"]
NoInstruction == [type |-> "none"]

\* no simulator has been made, the switches are not shown
NoSimulator == [type |-> "none"]
NoKeys == [type |-> "none"]

-----------------------------------------------------------------------------
(* Bounds of the model *)

\* Devices are wired to lines 0..MaxLine: only these lines are ever requested.
MaxLine == 2
\* A program rewrites the vector registers INT0..INTMaxRemapLine only.
MaxRemapLine == 0
\* update() and INT are issued while fewer than MaxFrames interrupt frames
\* (FLAGS, IP) are on the stack.
MaxFrames == 1
\* At most MaxInstr INT instructions run in a row before a jump or the end of the run.
MaxInstr == 1
\* INT 7 is asked for strings of at most MaxLength bytes.
MaxLength == 2

-----------------------------------------------------------------------------
(* Configuration *)

MEMORY_SIZE == 16384
MIN_MEMORY_ADDRESS == 0
MAX_MEMORY_ADDRESS == 16383
INITIAL_IP == 8192
INTERRUPT_VECTOR_ADDRESS_SIZE == 4
EOI_COMMAND == 32

IntN == 0..7

\* INT0..INT7 as constructed: 0x10 .. 0x17
DefaultID(n) == 16 + n

\* IDs the CPU manages itself (INT 0..7); a PIC line must not carry one.
interruptPattern == 0..7

\* Where the loaded program put the routine of hardware line n.
Handler(n) == INITIAL_IP + 4096 + 16 * n

-----------------------------------------------------------------------------
(* Bit and byte helpers *)

bit(value, i) == (value \div (2 ^ i)) % 2 = 1

\* mutant: the mask is added instead of or-ed
OrMask_Add(value, n) == value + 2 ^ n

\* value |= 1 << n
OrMask(value, n) == IF bit(value, n) THEN value ELSE value + 2 ^ n

\* value &= ~(1 << n)
AndNotMask(value, n) == IF bit(value, n) THEN value - 2 ^ n ELSE value

\* value ^= 1 << n
XorMask(value, n) == IF bit(value, n) THEN value - 2 ^ n ELSE value + 2 ^ n

\* number of bits set in a byte
PopCount(value) == Cardinality({i \in IntN : bit(value, i)})

\* (high << 8) | low, for bytes low and high
joinLowHigh(low, high) == high * 256 + low

\* mutant: the high byte comes first
splitLowHigh_HighFirst(value) == <<(value \div 256) % 256, value % 256>>

\* [value & 0xff, (value >> 8) & 0xff], for value >= 0
splitLowHigh(value) == <<value % 256, (value \div 256) % 256>>

-----------------------------------------------------------------------------
(* Memory *)

Cell(mem, address) == IF address \in DOMAIN mem THEN mem[address] ELSE 0

Store(mem, address, value) ==
    IF value = 0
    THEN [a \in DOMAIN mem \ {address} |-> mem[a]]
    ELSE [a \in DOMAIN mem \cup {address} |-> IF a = address THEN value ELSE mem[a]]

\* getMemory(address, size): ok = FALSE is the out-of-range error
getMemory(mem, address, size) ==
    IF size = "byte"
    THEN IF address < MIN_MEMORY_ADDRESS \/ address > MAX_MEMORY_ADDRESS
         THEN [value |-> 0, ok |-> FALSE]
         ELSE [value |-> Cell(mem, address), ok |-> TRUE]
    ELSE IF address < MIN_MEMORY_ADDRESS \/ address > MAX_MEMORY_ADDRESS - 1
         THEN [value |-> 0, ok |-> FALSE]
         ELSE [value |-> joinLowHigh(Cell(mem, address), Cell(mem, address + 1)),
               ok |-> TRUE]

\* setMemory(address, size, value): ok = FALSE is the out-of-range error
setMemory(mem, address, size, value) ==
    IF size = "byte"
    THEN IF address < MIN_MEMORY_ADDRESS \/ address > MAX_MEMORY_ADDRESS
         THEN [memory |-> mem, ok |-> FALSE]
         ELSE [memory |-> Store(mem, address, value), ok |-> TRUE]
    ELSE IF address < MIN_MEMORY_ADDRESS \/ address > MAX_MEMORY_ADDRESS - 1
         THEN [memory |-> mem, ok |-> FALSE]
         ELSE [memory |-> Store(Store(mem, address, splitLowHigh(value)[1]),
                                address + 1, splitLowHigh(value)[2]),
               ok |-> TRUE]

-----------------------------------------------------------------------------
(* CPU: flags and stack *)

\* mutant: the IF check of update() is dropped
interruptsEnabled_Ignored == TRUE

interruptsEnabled == FLAGS.interrupt

B(b) == IF b THEN 1 ELSE 0

\* The FLAGS word: CF bit 0, ZF bit 6, SF bit 7, IF bit 9, OF bit 11.
encodeFlags(f) ==
    B(f.carry) + 64 * B(f.zero) + 128 * B(f.sign) + 512 * B(f.interrupt) + 2048 * B(f.overflow)

decodeFlags(w) ==
    [interrupt |-> bit(w, 9),
     carry |-> bit(w, 0),
     zero |-> bit(w, 6),
     sign |-> bit(w, 7),
     overflow |-> bit(w, 11)]

\* PUSH: SP decreases by 2, then the word is written little-endian at SP;
\* stack overflow when SP would go below 0.
pushToStack(regs, mem, value) ==
    IF regs.SP - 2 < MIN_MEMORY_ADDRESS
    THEN [registers |-> regs, memory |-> mem, ok |-> FALSE]
    ELSE [registers |-> [regs EXCEPT !.SP = regs.SP - 2],
          memory |-> setMemory(mem, regs.SP - 2, "word", value).memory,
          ok |-> TRUE]

\* Number of interrupt frames (two words each) the stack holds.
Frames == (MEMORY_SIZE - registers.SP) \div 4

CanNest == registers.SP <= 4 \/ Frames < MaxFrames

-----------------------------------------------------------------------------
(* PIC *)

\* request(n): IRR |= 1 << n
request(n) ==
    /\ pic' = [pic EXCEPT !.IRR = OrMask(pic.IRR, n)]
    /\ last' = [op |-> "request", arg |-> n, result |-> "ok"]
    /\ UNCHANGED <<registers, FLAGS, memory, eoiFresh, intVars>>

\* cancel(n): IRR &= ~(1 << n)
cancel(n) ==
    /\ pic' = [pic EXCEPT !.IRR = AndNotMask(pic.IRR, n)]
    /\ last' = [op |-> "cancel", arg |-> n, result |-> "ok"]
    /\ UNCHANGED <<registers, FLAGS, memory, eoiFresh, intVars>>

\* if (ISR !== 0): an interrupt is being executed
InService(ISR) == ISR # 0

\* mutant: any non-zero EOI ends the interrupt
EndOfInterrupt_AnyWrite(EOI) == EOI # 0

\* if (EOI === 0x20): end of interrupt
EndOfInterrupt(EOI) == EOI = EOI_COMMAND

NoLine == 8

\* for (let i = 0; i < 8; i++) { if (isMasked) continue; if (!isRequested) continue; ... }
\* the line at which the loop, entered at i, reaches "Run interrupt"; NoLine when it ends
RECURSIVE Scan(_, _, _)
Scan(IMR, IRR, i) ==
    IF ~(i < 8) THEN NoLine
    ELSE IF bit(IMR, i) THEN Scan(IMR, IRR, i + 1)
    ELSE IF ~bit(IRR, i) THEN Scan(IMR, IRR, i + 1)
    ELSE i

\* mutant: the loop runs from line 7 down
SelectLine_Highest(IMR, IRR) ==
    IF \E i \in IntN : ~bit(IMR, i) /\ bit(IRR, i)
    THEN CHOOSE i \in IntN :
            /\ ~bit(IMR, i) /\ bit(IRR, i)
            /\ \A j \in IntN : (~bit(IMR, j) /\ bit(IRR, j)) => j <= i
    ELSE NoLine

SelectLine(IMR, IRR) == Scan(IMR, IRR, 0)

\* mutant: the test is inverted
IsReserved_Inverted(ID) == ID \notin interruptPattern

\* isMatching(interruptPattern, ID)
IsReserved(ID) == ID \in interruptPattern

\* mutant: ISR latches the whole request register
Acknowledge_LatchRequests(p, i) ==
    [p EXCEPT !.EOI = 0, !.IRR = XorMask(p.IRR, i), !.ISR = p.IRR]

\* mutant: the request stays in IRR
Acknowledge_KeepRequest(p, i) ==
    [p EXCEPT !.EOI = 0, !.ISR = 2 ^ i]

\* mutant: EOI is not reset
Acknowledge_KeepEOI(p, i) ==
    [p EXCEPT !.IRR = XorMask(p.IRR, i), !.ISR = 2 ^ i]

\* set(state => { EOI = 0; IRR ^= 1 << i; ISR = 1 << i })
Acknowledge(p, i) ==
    [p EXCEPT !.EOI = 0, !.IRR = XorMask(p.IRR, i), !.ISR = 2 ^ i]

\* set(state => { EOI = 0; ISR = 0 })
EndService(p) == [p EXCEPT !.EOI = 0, !.ISR = 0]

\* The part of update() after a line was selected and its ID accepted:
\* acknowledge, read the vector, push FLAGS, push IP, jump.
Dispatch(i, ID) ==
    LET address == getMemory(memory, ID * INTERRUPT_VECTOR_ADDRESS_SIZE, "word")
        flags   == pushToStack(registers, memory, encodeFlags(FLAGS))
        IP      == pushToStack(flags.registers, flags.memory, registers.IP)
    IN  /\ pic' = Acknowledge(pic, i)
        /\ IF ~address.ok
           THEN /\ last' = [op |-> "update", arg |-> i, result |-> "address-out-of-range"]
                /\ UNCHANGED <<registers, memory>>
           ELSE IF ~flags.ok
           THEN /\ last' = [op |-> "update", arg |-> i, result |-> "stack-overflow"]
                /\ UNCHANGED <<registers, memory>>
           ELSE IF ~IP.ok
           THEN /\ last' = [op |-> "update", arg |-> i, result |-> "stack-overflow"]
                /\ registers' = flags.registers
                /\ memory' = flags.memory
           ELSE /\ last' = [op |-> "update", arg |-> i, result |-> "dispatch"]
                /\ registers' = [IP.registers EXCEPT !.IP = address.value]
                /\ memory' = IP.memory

\* update(), whatever the stack holds
UpdateCall ==
    /\ pc = "idle"
    /\ eoiFresh' = FALSE
    /\ UNCHANGED <<FLAGS, intVars>>
    /\ IF InService(pic.ISR)
       THEN /\ IF EndOfInterrupt(pic.EOI)
               THEN /\ pic' = EndService(pic)
                    /\ last' = [op |-> "update", arg |-> NoLine, result |-> "eoi"]
               ELSE /\ pic' = pic
                    /\ last' = [op |-> "update", arg |-> NoLine, result |-> "in-service"]
            /\ UNCHANGED <<registers, memory>>
       ELSE IF ~interruptsEnabled
       THEN /\ last' = [op |-> "update", arg |-> NoLine, result |-> "disabled"]
            /\ UNCHANGED <<pic, registers, memory>>
       ELSE LET i == SelectLine(pic.IMR, pic.IRR)
            IN  IF i = NoLine
                THEN /\ last' = [op |-> "update", arg |-> NoLine, result |-> "none"]
                     /\ UNCHANGED <<pic, registers, memory>>
                ELSE IF IsReserved(pic.INT[i])
                THEN /\ last' = [op |-> "update", arg |-> i, result |-> "reserved-interrupt"]
                     /\ UNCHANGED <<pic, registers, memory>>
                ELSE Dispatch(i, pic.INT[i])

\* update() while the stack has room for the frames of the model
update ==
    /\ CanNest
    /\ UpdateCall

-----------------------------------------------------------------------------
(* What the running program does to the PIC and to IF *)

EOIValues == {EOI_COMMAND, EOI_COMMAND + 1}
IMRValues == {255, 0, 250}
IDValues(n) == {DefaultID(n), 6}

\* OUT EOI, AL
writeEOI(v) ==
    /\ pc = "idle"
    /\ pic' = [pic EXCEPT !.EOI = v]
    /\ last' = [op |-> "writeEOI", arg |-> NoLine, result |-> "ok"]
    /\ eoiFresh' = IF v = EOI_COMMAND THEN TRUE ELSE eoiFresh
    /\ UNCHANGED <<registers, FLAGS, memory, intVars>>

\* OUT IMR, AL
writeIMR(v) ==
    /\ pc = "idle"
    /\ pic' = [pic EXCEPT !.IMR = v]
    /\ last' = [op |-> "writeIMR", arg |-> NoLine, result |-> "ok"]
    /\ UNCHANGED <<registers, FLAGS, memory, eoiFresh, intVars>>

\* OUT INTn, AL
writeINT(n, v) ==
    /\ pc = "idle"
    /\ pic' = [pic EXCEPT !.INT[n] = v]
    /\ last' = [op |-> "writeINT", arg |-> NoLine, result |-> "ok"]
    /\ UNCHANGED <<registers, FLAGS, memory, eoiFresh, intVars>>

\* STI: IF = 1
STI ==
    /\ pc = "idle"
    /\ FLAGS' = [FLAGS EXCEPT !.interrupt = TRUE]
    /\ last' = [op |-> "STI", arg |-> NoLine, result |-> "ok"]
    /\ UNCHANGED <<pic, registers, memory, eoiFresh, intVars>>

\* CLI: IF = 0
CLI ==
    /\ pc = "idle"
    /\ FLAGS' = [FLAGS EXCEPT !.interrupt = FALSE]
    /\ last' = [op |-> "CLI", arg |-> NoLine, result |-> "ok"]
    /\ UNCHANGED <<pic, registers, memory, eoiFresh, intVars>>

-----------------------------------------------------------------------------
(* Initial state *)

\* The interrupt vector table the loaded program installed: the routine of
\* line n at address DefaultID(n) * 4, little-endian.
LoadedMemory ==
    [a \in UNION {{DefaultID(n) * 4, DefaultID(n) * 4 + 1} : n \in 0..MaxLine} |->
        LET n == (a \div 4) - 16
        IN  IF a % 4 = 0 THEN splitLowHigh(Handler(n))[1] ELSE splitLowHigh(Handler(n))[2]]

InitPIC ==
    [IRR |-> 0, ISR |-> 0, EOI |-> 0, IMR |-> 255, INT |-> [n \in IntN |-> DefaultID(n)]]

NoLocal == [i |-> 0, address |-> 0, char |-> 0, start |-> 0, length |-> 0]

\* the analyzer has not been called, the ALU has not been used
NoAnalysis == [statements |-> <<>>]
NoALU == [operation |-> "AND"]

NoEntry == [registers |-> 0, FLAGS |-> 0, memory |-> 0]

Init ==
    /\ pic = InitPIC
    /\ registers \in {[SP |-> sp,
                       IP |-> INITIAL_IP,
                       AX |-> 0,
                       BX |-> 0,
                       IR |-> 0,
                       ri |-> 0,
                       id |-> 0] : sp \in {MEMORY_SIZE, 2}}
    /\ FLAGS = [interrupt |-> FALSE,
                carry |-> FALSE,
                zero |-> TRUE,
                sign |-> FALSE,
                overflow |-> FALSE]
    /\ memory = LoadedMemory
    /\ last = [op |-> "init", arg |-> NoLine, result |-> "ok"]
    /\ eoiFresh = FALSE
    /\ pc = "idle"
    /\ number = 0
    /\ local = NoLocal
    /\ events = <<>>
    /\ entry = NoEntry
    /\ analysis = NoAnalysis
    /\ alu = NoALU
    /\ returned = NoReturn
    /\ instruction = NoInstruction
    /\ simulator = NoSimulator
    /\ keys = NoKeys

Next ==
    \/ \E n \in 0..MaxLine : request(n)
    \/ \E n \in 0..MaxLine : cancel(n)
    \/ update
    \/ \E v \in EOIValues : writeEOI(v)
    \/ \E v \in IMRValues : writeIMR(v)
    \/ \E n \in 0..MaxRemapLine : \E v \in IDValues(n) : writeINT(n, v)
    \/ STI
    \/ CLI

Spec == Init /\ [][Next]_vars

\* The PIC alone with all eight lines: request(n) and cancel(n) for n in 0..7.
NextLines ==
    \/ \E n \in IntN : request(n)
    \/ \E n \in IntN : cancel(n)

SpecLines == Init /\ [][NextLines]_vars

-----------------------------------------------------------------------------
(* The INT instruction: INTInstruction.execute, one action per resumption of *)
(* the generator, from one `yield` of execute to its next `yield` or return. *)
(* pc names the event the generator is suspended at.                         *)

Ev(type, value) == [type |-> type, value |-> value]

\* getRegister("AL"): the low byte of AX
AL(regs) == splitLowHigh(regs.AX)[1]

\* POP: the word at SP is read, then SP increases by 2; stack underflow when
\* SP is past the top of memory.
popFromStack(regs, mem) ==
    IF regs.SP + 2 > MEMORY_SIZE
    THEN [registers |-> regs, value |-> 0, ok |-> FALSE]
    ELSE [registers |-> [regs EXCEPT !.SP = regs.SP + 2],
          value |-> getMemory(mem, regs.SP, "word").value,
          ok |-> TRUE]

\* mutant: the console routine leaves IF as it was
ClearIF_Noop(f) == f

\* setFlag("IF", false)
ClearIF(f) == [f EXCEPT !.interrupt = FALSE]

\* yield { type: to, ... }: the generator suspends at event `to`
Emit(to, value) ==
    /\ pc' = to
    /\ events' = Append(events, Ev(to, value))
    /\ last' = [op |-> "INT", arg |-> number, result |-> to]
    /\ UNCHANGED otherVars

\* return false: the run ends
Stop(why) ==
    /\ pc' = "halted"
    /\ events' = events
    /\ last' = [op |-> "INT", arg |-> number, result |-> why]
    /\ UNCHANGED otherVars

\* return true: the CPU goes on to the next instruction
Continue(why) ==
    /\ pc' = "idle"
    /\ events' = <<>>
    /\ last' = [op |-> "INT", arg |-> number, result |-> why]
    /\ local' = NoLocal
    /\ UNCHANGED <<number, entry, otherVars>>

\* mutant: INT is refused while IF = 0, like a hardware interrupt
Effect_GatedByIF(n) ==
    IF ~FLAGS.interrupt THEN "ignore"
    ELSE CASE n = 0 -> "halt" [] n = 3 -> "breakpoint" [] n \in {6, 7} -> "console"
           [] OTHER -> "interrupt"

\* switch (number) { case 0 ... case 3 ... case 6: case 7 ... default ... }
Effect(n) ==
    CASE n = 0 -> "halt"
      [] n = 3 -> "breakpoint"
      [] n \in {6, 7} -> "console"
      [] OTHER -> "interrupt"

\* execute() is called for the instruction INT n at IP: runs to `yield cycle.start`
INT_Start(n) ==
    /\ pc = "idle"
    /\ registers.IP % 16 < 2 * MaxInstr
    /\ CanNest
    /\ pc' = "cycle.start"
    /\ number' = n
    /\ events' = <<Ev("cycle.start", n)>>
    /\ local' = NoLocal
    /\ entry' = [registers |-> registers, FLAGS |-> FLAGS, memory |-> memory]
    /\ last' = [op |-> "INT", arg |-> n, result |-> "cycle.start"]
    /\ UNCHANGED <<pic, registers, FLAGS, memory, eoiFresh, otherVars>>

\* consumeInstruction(computer, "IR"): the byte at IP goes to IR, IP advances;
\* then `yield decode`
INT_FetchOpcode ==
    /\ pc = "cycle.start"
    /\ LET opcode == getMemory(memory, registers.IP, "byte")
       IN  IF opcode.ok
           THEN /\ registers' = [registers EXCEPT !.IR = opcode.value, !.IP = registers.IP + 1]
                /\ Emit("decode", 0)
           ELSE /\ registers' = registers
                /\ Stop("address-out-of-range")
    /\ UNCHANGED <<pic, FLAGS, memory, eoiFresh, number, local, entry>>

\* mutant: the decoded phase is announced as the execute phase
INT_Decoded_SkipsPhase ==
    /\ pc = "decode"
    /\ Emit("execute", 0)
    /\ UNCHANGED <<pic, registers, FLAGS, memory, eoiFresh, number, local, entry>>

\* yield cycle.update decoded
INT_Decoded ==
    /\ pc = "decode"
    /\ Emit("decoded", 0)
    /\ UNCHANGED <<pic, registers, FLAGS, memory, eoiFresh, number, local, entry>>

\* consumeInstruction(computer, "ri.l"): the byte at IP goes to the low half
\* of ri, IP advances; then `yield cycle.update execute`
INT_FetchOperand ==
    /\ pc = "decoded"
    /\ LET operand == getMemory(memory, registers.IP, "byte")
       IN  IF operand.ok
           THEN /\ registers' =
                      [registers EXCEPT
                          !.ri = joinLowHigh(operand.value, splitLowHigh(registers.ri)[2]),
                          !.IP = registers.IP + 1]
                /\ Emit("execute", 0)
           ELSE /\ registers' = registers
                /\ Stop("address-out-of-range")
    /\ UNCHANGED <<pic, FLAGS, memory, eoiFresh, number, local, entry>>

\* case 0: yield int.0
INT_Halt ==
    /\ pc = "execute"
    /\ Effect(number) = "halt"
    /\ Emit("int.0", 0)
    /\ UNCHANGED <<pic, registers, FLAGS, memory, eoiFresh, number, local, entry>>

\* mutant: INT 0 returns true
INT_HaltReturn_Continues ==
    /\ pc = "int.0"
    /\ Continue("return")
    /\ UNCHANGED <<pic, registers, FLAGS, memory, eoiFresh>>

\* case 0: return false
INT_HaltReturn ==
    /\ pc = "int.0"
    /\ Stop("int.0")
    /\ UNCHANGED <<pic, registers, FLAGS, memory, eoiFresh, number, local, entry>>

\* mutant: the breakpoint masks the interrupts
INT_Breakpoint_ClearsIF ==
    /\ pc = "execute"
    /\ Effect(number) = "breakpoint"
    /\ Emit("int.3", 0)
    /\ FLAGS' = ClearIF(FLAGS)
    /\ UNCHANGED <<pic, registers, memory, eoiFresh, number, local, entry>>

\* case 3: yield int.3
INT_Breakpoint ==
    /\ pc = "execute"
    /\ Effect(number) = "breakpoint"
    /\ Emit("int.3", 0)
    /\ UNCHANGED <<pic, registers, FLAGS, memory, eoiFresh, number, local, entry>>

\* case 6, 7: yield register.copy FLAGS -> id
INT_SaveFlags ==
    /\ pc = "execute"
    /\ Effect(number) = "console"
    /\ Emit("copy.FLAGS.id", 0)
    /\ UNCHANGED <<pic, registers, FLAGS, memory, eoiFresh, number, local, entry>>

\* pushToStack(FLAGS) (return false on stack overflow); setFlag("IF", false);
\* yield register.update FLAGS
INT_PushFlags ==
    /\ pc = "copy.FLAGS.id"
    /\ LET pushed == pushToStack(registers, memory, encodeFlags(FLAGS))
       IN  IF ~pushed.ok
           THEN /\ Stop("stack-overflow")
                /\ UNCHANGED <<registers, FLAGS, memory>>
           ELSE /\ registers' = pushed.registers
                /\ memory' = pushed.memory
                /\ FLAGS' = ClearIF(FLAGS)
                /\ Emit("update.FLAGS", encodeFlags(ClearIF(FLAGS)))
    /\ UNCHANGED <<pic, eoiFresh, number, local, entry>>

\* yield int.6 / int.7
INT_Announce ==
    /\ pc = "update.FLAGS"
    /\ Emit(IF number = 6 THEN "int.6" ELSE "int.7", 0)
    /\ UNCHANGED <<pic, registers, FLAGS, memory, eoiFresh, number, local, entry>>

\* INT 6: address = BX; INT 7: start = BX; yield register.copy BX -> ri
INT_CopyBX ==
    /\ pc \in {"int.6", "int.7"}
    /\ local' = [local EXCEPT !.address = registers.BX, !.start = registers.BX]
    /\ Emit("copy.BX.ri", 0)
    /\ UNCHANGED <<pic, registers, FLAGS, memory, eoiFresh, number, entry>>

\* INT 6: char = yield console.read: the generator waits for the consumer
INT_ConsoleRead ==
    /\ pc = "copy.BX.ri"
    /\ number = 6
    /\ Emit("console.read", 0)
    /\ UNCHANGED <<pic, registers, FLAGS, memory, eoiFresh, number, local, entry>>

\* mutant: whatever the consumer resumes with is taken as the character
Is8bits_Any(value) == TRUE

\* value is a Byte of 8 bits
Is8bits(value) == value \in 0..255

\* the consumer resumes the generator with `char`; anything but an 8-bit
\* Byte throws; else yield register.update id
INT_Resume(char) ==
    /\ pc = "console.read"
    /\ IF ~Is8bits(char)
       THEN /\ pc' = "thrown"
            /\ events' = events
            /\ last' = [op |-> "INT", arg |-> number, result |-> "thrown"]
            /\ local' = local
            /\ UNCHANGED otherVars
       ELSE /\ local' = [local EXCEPT !.char = char]
            /\ Emit("update.id", char)
    /\ UNCHANGED <<pic, registers, FLAGS, memory, eoiFresh, number, entry>>

\* INT 6: yield mar.set ri
INT_MarSet ==
    /\ pc = "update.id"
    /\ Emit("mar.set", 0)
    /\ UNCHANGED <<pic, registers, FLAGS, memory, eoiFresh, number, local, entry>>

\* INT 6: yield mbr.set id.l
INT_MbrSet ==
    /\ pc = "mar.set"
    /\ number = 6
    /\ Emit("mbr.set", 0)
    /\ UNCHANGED <<pic, registers, FLAGS, memory, eoiFresh, number, local, entry>>

\* "Retrieve machine state": popFromStack() (return false on underflow);
\* FLAGS = the popped word; yield register.copy id -> FLAGS
RestoreFlags(mem) ==
    LET popped == popFromStack(registers, mem)
    IN  IF ~popped.ok
        THEN /\ Stop("stack-underflow")
             /\ UNCHANGED <<registers, FLAGS>>
        ELSE /\ registers' = popped.registers
             /\ FLAGS' = decodeFlags(popped.value)
             /\ Emit("copy.id.FLAGS", popped.value)

\* INT 6: memory.write(address, char) (return false on error), then the
\* machine state is retrieved
INT_WriteChar ==
    /\ pc = "mbr.set"
    /\ LET written == setMemory(memory, local.address, "byte", local.char)
       IN  IF ~written.ok
           THEN /\ Stop("address-out-of-range")
                /\ UNCHANGED <<registers, FLAGS, memory>>
           ELSE /\ memory' = written.memory
                /\ RestoreFlags(written.memory)
    /\ UNCHANGED <<pic, eoiFresh, number, local, entry>>

\* INT 7: length = AL; yield register.copy AL -> id.l
INT_CopyAL ==
    /\ pc = "copy.BX.ri"
    /\ number = 7
    /\ local' = [local EXCEPT !.length = AL(registers), !.i = 0]
    /\ Emit("copy.AL.id.l", 0)
    /\ UNCHANGED <<pic, registers, FLAGS, memory, eoiFresh, number, entry>>

\* mutant: the loop runs while i <= length
LoopTest_OneMore(i) ==
    /\ local' = [local EXCEPT !.i = i]
    /\ IF i <= local.length
       THEN /\ Emit("mar.set", 0)
            /\ UNCHANGED <<registers, FLAGS>>
       ELSE RestoreFlags(memory)
    /\ UNCHANGED <<pic, memory, eoiFresh, number, entry>>

\* INT 7: the loop test `i < length`: yield mar.set ri when it holds, else
\* leave the loop and retrieve the machine state
LoopTest(i) ==
    /\ local' = [local EXCEPT !.i = i]
    /\ IF i < local.length
       THEN /\ Emit("mar.set", 0)
            /\ UNCHANGED <<registers, FLAGS>>
       ELSE RestoreFlags(memory)
    /\ UNCHANGED <<pic, memory, eoiFresh, number, entry>>

\* INT 7: for (let i = 0; i < length; ...
INT_LoopEnter ==
    /\ pc = "copy.AL.id.l"
    /\ LoopTest(0)

\* INT 7: char = memory.read(start + i) (return false on error);
\* yield console.write char
INT_ReadChar ==
    /\ pc = "mar.set"
    /\ number = 7
    /\ LET char == getMemory(memory, local.start + local.i, "byte")
       IN  IF ~char.ok
           THEN Stop("address-out-of-range")
           ELSE Emit("console.write", char.value)
    /\ UNCHANGED <<pic, registers, FLAGS, memory, eoiFresh, number, local, entry>>

\* INT 7: yield register.update ri = start + i + 1
INT_UpdateRi ==
    /\ pc = "console.write"
    /\ Emit("update.ri", local.start + local.i + 1)
    /\ UNCHANGED <<pic, registers, FLAGS, memory, eoiFresh, number, local, entry>>

\* INT 7: yield register.update id.l = length - i - 1
INT_UpdateIdl ==
    /\ pc = "update.ri"
    /\ Emit("update.id.l", local.length - local.i - 1)
    /\ UNCHANGED <<pic, registers, FLAGS, memory, eoiFresh, number, local, entry>>

\* INT 7: ... i++) and the loop test again
INT_LoopNext ==
    /\ pc = "update.id.l"
    /\ LoopTest(local.i + 1)

\* startInterrupt(id): push FLAGS, IF <- 0, push IP, IP <- the word at id * 4
startInterrupt(id) ==
    LET flags == pushToStack(registers, memory, encodeFlags(FLAGS))
        IP    == pushToStack(flags.registers, flags.memory, registers.IP)
        vector == getMemory(IP.memory, id * INTERRUPT_VECTOR_ADDRESS_SIZE, "word")
    IN  IF ~flags.ok
        THEN [registers |-> registers, FLAGS |-> FLAGS, memory |-> memory, ok |-> FALSE]
        ELSE IF ~IP.ok
        THEN [registers |-> flags.registers,
              FLAGS |-> ClearIF(FLAGS),
              memory |-> flags.memory,
              ok |-> FALSE]
        ELSE IF ~vector.ok
        THEN [registers |-> IP.registers,
              FLAGS |-> ClearIF(FLAGS),
              memory |-> IP.memory,
              ok |-> FALSE]
        ELSE [registers |-> [IP.registers EXCEPT !.IP = vector.value],
              FLAGS |-> ClearIF(FLAGS),
              memory |-> IP.memory,
              ok |-> TRUE]

\* default: yield* computer.cpu.startInterrupt(this.number); return true
INT_StartInterrupt ==
    /\ pc = "execute"
    /\ Effect(number) = "interrupt"
    /\ LET started == startInterrupt(number)
       IN  /\ registers' = started.registers
           /\ FLAGS' = started.FLAGS
           /\ memory' = started.memory
           /\ Continue(IF started.ok THEN "interrupt" ELSE "stack-overflow")
    /\ UNCHANGED <<pic, eoiFresh>>

\* case 3 and case 6, 7: return true
INT_Return ==
    /\ pc \in {"int.3", "copy.id.FLAGS"}
    /\ Continue("return")
    /\ UNCHANGED <<pic, registers, FLAGS, memory, eoiFresh>>

\* The INT numbers of the programs run, and what the console's user types.
IntNumbers == {0, 3, 6, 7, 1, 9}
Chars == {0, 65, 256}

\* Memory after the load: the vector of hardware line 0, the vector of INT 9,
\* and the program's data at 1000h and at the top of memory.
LoadedMemoryINT ==
    (DefaultID(0) * 4 :> splitLowHigh(Handler(0))[1]) @@
    (DefaultID(0) * 4 + 1 :> splitLowHigh(Handler(0))[2]) @@
    (9 * 4 :> splitLowHigh(Handler(9))[1]) @@
    (9 * 4 + 1 :> splitLowHigh(Handler(9))[2]) @@
    (4096 :> 72) @@ (4097 :> 105) @@ (4098 :> 33) @@ (4099 :> 10) @@
    (MAX_MEMORY_ADDRESS :> 90)

InitINT ==
    /\ pic = [InitPIC EXCEPT !.IMR = 254]
    /\ registers \in {[SP |-> sp,
                       IP |-> INITIAL_IP,
                       AX |-> 256 + al,
                       BX |-> bx,
                       IR |-> 0,
                       ri |-> 0,
                       id |-> 0] :
                          sp \in {MEMORY_SIZE, 2}, al \in 0..MaxLength,
                          bx \in {4096, MAX_MEMORY_ADDRESS}}
    /\ FLAGS \in {[interrupt |-> b,
                   carry |-> c,
                   zero |-> TRUE,
                   sign |-> FALSE,
                   overflow |-> FALSE] : c \in {TRUE}, b \in BOOLEAN}
    /\ memory = LoadedMemoryINT
    /\ last = [op |-> "init", arg |-> NoLine, result |-> "ok"]
    /\ eoiFresh = FALSE
    /\ pc = "idle"
    /\ number = 0
    /\ local = NoLocal
    /\ events = <<>>
    /\ entry = NoEntry
    /\ analysis = NoAnalysis
    /\ alu = NoALU
    /\ returned = NoReturn
    /\ instruction = NoInstruction
    /\ simulator = NoSimulator
    /\ keys = NoKeys

NextINT ==
    \/ \E n \in IntNumbers : INT_Start(n)
    \/ INT_FetchOpcode
    \/ INT_Decoded
    \/ INT_FetchOperand
    \/ INT_Halt
    \/ INT_HaltReturn
    \/ INT_Breakpoint
    \/ INT_SaveFlags
    \/ INT_PushFlags
    \/ INT_Announce
    \/ INT_CopyBX
    \/ INT_ConsoleRead
    \/ \E char \in Chars : INT_Resume(char)
    \/ INT_MarSet
    \/ INT_MbrSet
    \/ INT_WriteChar
    \/ INT_CopyAL
    \/ INT_LoopEnter
    \/ INT_ReadChar
    \/ INT_UpdateRi
    \/ INT_UpdateIdl
    \/ INT_LoopNext
    \/ INT_StartInterrupt
    \/ INT_Return
    \/ update
    \/ request(0)

SpecINT == InitINT /\ [][NextINT]_vars

-----------------------------------------------------------------------------
(* The analyzer's computeAddresses: one step per statement of the list, in  *)
(* source order, then the return of the result.                             *)

\* Programs of at most MaxStatements statements are analyzed.
MaxStatements == 4

\* let pointer: number | null = null
NullPointer == -1

\* statement.meta.label of a statement without label
NoLabel == ""

\* the statement types matched by instructionPattern
instructionPattern == {"MOV"}

\* the origins, labels and statements of the programs analyzed: ORG 3FFCh,
\* 3FFEh and 3FFFh, an EQU, END, db (1 byte), dw (2 bytes) and MOV (3
\* bytes), each with or without a label. `start` is meta.start, 0
\* after validation.
OrgAddresses == {16380, 16382, 16383}
Labels == {"DATO", "LAZO"}

Sized == {<<"DB", 1>>, <<"DW", 2>>, <<"MOV", 3>>}

ValidatedStatement ==
    {[type |-> "EQU", start |-> 0, length |-> 0, newAddress |-> 0, label |-> NoLabel],
     [type |-> "end", start |-> 0, length |-> 0, newAddress |-> 0, label |-> NoLabel]}
    \cup {[type |-> "origin-change",
           start |-> 0,
           length |-> 0,
           newAddress |-> a,
           label |-> NoLabel] : a \in OrgAddresses}
    \cup {[type |-> t[1], start |-> 0, length |-> t[2], newAddress |-> 0, label |-> l] :
             t \in Sized, l \in Labels \cup {NoLabel}}

\* the callback ran to its end
Done(a, start) == [analysis |-> a, value |-> 0, start |-> start, error |-> ""]

\* throw new CompilerError(code, value).at(statement)
Throw(a, start, code, value) == [analysis |-> a, value |-> value, start |-> start, error |-> code]

\* mutant: a missing ORG goes unnoticed
MissingOrg_Never(pointer) == FALSE

\* pointer === null
MissingOrg(pointer) == pointer = NullPointer

\* mutant: every label is the label of an instruction
LabelType_Instruction(type) == "instruction"

\* statement.type === "DB" || statement.type === "DW" ? statement.type : "instruction"
LabelType(type) == IF type = "DB" \/ type = "DW" THEN type ELSE "instruction"

\* labelAddresses.set(label, { type, address })
SetLabel(labelAddresses, label, type, address) ==
    (label :> [type |-> type, address |-> address]) @@ labelAddresses

\* finalPointer > MAX_MEMORY_ADDRESS
OutOfRange(finalPointer) == finalPointer > MAX_MEMORY_ADDRESS

\* mutant: no address is ever seen as occupied
IsOccupied_Never(occupiedMemory, pointer) == FALSE

\* occupiedMemory.has(pointer)
IsOccupied(occupiedMemory, pointer) == pointer \in occupiedMemory

\* for (; pointer < finalPointer; pointer++) { ... }
RECURSIVE Occupy(_, _, _, _)
Occupy(a, start, finalPointer, isInstruction) ==
    IF ~(a.pointer < finalPointer) THEN Done(a, start)
    ELSE IF IsOccupied(a.occupiedMemory, a.pointer)
    THEN Throw(a, start, "occupied-address", a.pointer)
    ELSE Occupy([a EXCEPT !.occupiedMemory = @ \cup {a.pointer},
                          !.codeMemory = IF isInstruction THEN @ \cup {a.pointer} ELSE @,
                          !.pointer = a.pointer + 1],
                start, finalPointer, isInstruction)

\* the callback of safeForEach: what computeAddresses does with one statement
callback(a, statement) ==
    IF statement.type = "EQU" THEN Done(a, statement.start)
    ELSE IF statement.type = "end" THEN Done(a, statement.start)
    ELSE IF statement.type = "origin-change"
    THEN Done([a EXCEPT !.pointer = statement.newAddress], statement.start)
    ELSE IF MissingOrg(a.pointer)
    THEN Throw(a, statement.start, "missing-org", 0)
    ELSE LET labelled ==
                 IF statement.label # NoLabel
                 THEN [a EXCEPT !.labelAddresses =
                          SetLabel(@, statement.label, LabelType(statement.type), a.pointer)]
                 ELSE a
             finalPointer == a.pointer + statement.length
         IN  IF OutOfRange(finalPointer)
             THEN Throw(labelled, a.pointer, "instruction-out-of-range", finalPointer)
             ELSE Occupy(labelled, a.pointer, finalPointer,
                         statement.type \in instructionPattern)

\* safeForEach: an error thrown by the callback is collected and the loop
\* goes on with the next statement
safeForEach(a, statement) ==
    LET called == callback(a, statement)
        at     == Len(a.statements) + 1
        seen   == [called.analysis EXCEPT
                      !.statements = Append(@, [statement EXCEPT !.start = called.start])]
    IN  IF called.error = "" THEN seen
        ELSE [seen EXCEPT !.errors =
                 Append(@, [value |-> called.value, code |-> called.error, at |-> at])]

\* the labels given so far (the parser rejects a second definition of a label)
LabelsOf(statements) ==
    {statements[k].label : k \in 1..Len(statements)} \ {NoLabel}

\* the next statement of the list is handed to the callback
Analyze(statement) ==
    /\ analysis.result = "running"
    /\ Len(analysis.statements) < MaxStatements
    /\ \A k \in 1..Len(analysis.statements) : analysis.statements[k].type # "end"
    /\ statement.label \notin LabelsOf(analysis.statements)
    /\ analysis' = safeForEach(analysis, statement)
    /\ UNCHANGED <<machineVars, alu, returned, instruction, simulator, keys>>

\* if (result.success) return { success: true, codeMemory, labelAddresses }
\* else return result
Return ==
    /\ analysis.result = "running"
    /\ analysis' = [analysis EXCEPT
                       !.result = IF analysis.errors = <<>> THEN "success" ELSE "failure"]
    /\ UNCHANGED <<machineVars, alu, returned, instruction, simulator, keys>>

\* computeAddresses is entered: its locals before the first statement
InitAnalysis ==
    [result |-> "running",
     statements |-> <<>>,
     pointer |-> NullPointer,
     labelAddresses |-> [l \in {} |-> 0],
     occupiedMemory |-> {},
     codeMemory |-> {},
     errors |-> <<>>]

\* the machine stands still while a program is analyzed
MachineIdle ==
    /\ pic = InitPIC
    /\ registers = [SP |-> MEMORY_SIZE,
                    IP |-> INITIAL_IP,
                    AX |-> 0,
                    BX |-> 0,
                    IR |-> 0,
                    ri |-> 0,
                    id |-> 0]
    /\ FLAGS = [interrupt |-> FALSE,
                carry |-> FALSE,
                zero |-> TRUE,
                sign |-> FALSE,
                overflow |-> FALSE]
    /\ memory = LoadedMemory
    /\ last = [op |-> "init", arg |-> NoLine, result |-> "ok"]
    /\ eoiFresh = FALSE
    /\ pc = "idle"
    /\ number = 0
    /\ local = NoLocal
    /\ events = <<>>
    /\ entry = NoEntry

InitAddresses ==
    /\ MachineIdle
    /\ analysis = InitAnalysis
    /\ alu = NoALU
    /\ returned = NoReturn
    /\ instruction = NoInstruction
    /\ simulator = NoSimulator
    /\ keys = NoKeys

NextAddresses ==
    \/ \E statement \in ValidatedStatement : Analyze(statement)
    \/ Return

SpecAddresses == InitAddresses /\ [][NextAddresses]_vars

-----------------------------------------------------------------------------
(* The ALU of the computer store: executeArithmetic *)

\* MAX_VALUE, MAX_SIGNED_VALUE and MIN_SIGNED_VALUE of a size
MAX_VALUE(size) == IF size = "byte" THEN 255 ELSE 65535
MAX_SIGNED_VALUE(size) == IF size = "byte" THEN 127 ELSE 32767
MIN_SIGNED_VALUE(size) == IF size = "byte" THEN -128 ELSE -32768

\* n > MAX_VALUE[size] ? MAX_VALUE[size] - n : n
unsignedToSigned(n, size) == IF n > MAX_VALUE(size) THEN MAX_VALUE(size) - n ELSE n

\* Number(get().alu.flags.carry)
Carry == IF alu.flags.carry THEN 1 ELSE 0

\* match(operation): ADD, ADC, SUB, SBB on two numbers
Apply(operation, left, right) ==
    CASE operation = "ADD" -> left + right
      [] operation = "ADC" -> left + right + Carry
      [] operation = "SUB" -> left - right
      [] operation = "SBB" -> left - right - Carry

\* the store's alu after executeArithmetic(operation, uleft, uright, size)
Arithmetic(operation, uleft, uright, size) ==
    LET left    == unsignedToSigned(uleft, size)
        right   == unsignedToSigned(uright, size)
        uresult == Apply(operation, uleft, uright)
        result  == Apply(operation, left, right)
        max     == MAX_VALUE(size)
        flags   == [carry |-> uresult < 0 \/ uresult > max,
                    zero |-> result = 0,
                    sign |-> result < 0,
                    overflow |-> result < MIN_SIGNED_VALUE(size)
                                    \/ result > MAX_SIGNED_VALUE(size)]
        wrapped == IF uresult > max THEN uresult - max - 1
                   ELSE IF uresult < 0 THEN uresult + max + 1
                   ELSE uresult
    IN  [result |-> wrapped,
         flags |-> flags,
         operation |-> operation,
         left |-> left,
         right |-> right]

\* executeArithmetic(operation, uleft, uright, size) is called; `last` keeps
\* the call and the carry it found
executeArithmetic(operation, uleft, uright, size) ==
    /\ alu' = Arithmetic(operation, uleft, uright, size)
    /\ last' = [op |-> operation,
                arg |-> [size |-> size, carry |-> Carry, left |-> uleft, right |-> uright],
                result |-> alu'.result]
    /\ UNCHANGED <<pic, registers, FLAGS, memory, eoiFresh, pc, number, local, events,
                   entry, analysis, returned, instruction,
                   simulator, keys>>

\* the bits 0..15 of left and right combined bit by bit, for left, right >= 0
RECURSIVE Bitwise(_, _, _, _)
Bitwise(operation, left, right, i) ==
    IF i > 15 THEN 0
    ELSE (IF CASE operation = "AND" -> bit(left, i) /\ bit(right, i)
               [] operation = "OR"  -> bit(left, i) \/ bit(right, i)
               [] operation = "XOR" -> bit(left, i) # bit(right, i)
          THEN 2 ^ i ELSE 0)
         + Bitwise(operation, left, right, i + 1)

\* ~right, on the 32-bit integers of the language
BitNot(right) == -right - 1

\* value >> k, the shift that keeps the sign
ShiftRight(value, k) == value \div (2 ^ k)

\* the store's alu after executeLogical(operation, left, right, size)
Logical(operation, left, right, size) ==
    LET result == IF operation = "NOT" THEN BitNot(right)
                  ELSE Bitwise(operation, left, right, 0)
        flags  == [carry |-> FALSE,
                   zero |-> result = 0,
                   sign |-> ShiftRight(result, IF size = "byte" THEN 7 ELSE 15) = 1,
                   overflow |-> FALSE]
    IN  [result |-> result,
         flags |-> flags,
         operation |-> operation,
         left |-> left,
         right |-> right]

\* executeLogical(operation, left, right, size) is called; `last` keeps the call
executeLogical(operation, left, right, size) ==
    /\ alu' = Logical(operation, left, right, size)
    /\ last' = [op |-> operation,
                arg |-> [size |-> size, carry |-> Carry, left |-> left, right |-> right],
                result |-> alu'.result]
    /\ UNCHANGED <<pic, registers, FLAGS, memory, eoiFresh, pc, number, local, events,
                   entry, analysis, returned, instruction,
                   simulator, keys>>

LogicalOperations == {"AND", "OR", "XOR", "NOT"}

\* the operands the instructions hand to the ALU
ArithmeticOperations == {"ADD", "ADC", "SUB", "SBB"}
Operands(size) ==
    IF size = "byte" THEN {0, 1, 127, 128, 255} ELSE {0, 1, 32767, 32768, 65535}

\* alu of the store at construction
InitALU ==
    [result |-> 0,
     flags |-> [carry |-> FALSE, zero |-> TRUE, sign |-> FALSE, overflow |-> FALSE],
     operation |-> "AND",
     left |-> 0,
     right |-> 0]

InitStore ==
    /\ MachineIdle
    /\ analysis = NoAnalysis
    /\ alu = InitALU
    /\ returned = NoReturn
    /\ instruction = NoInstruction
    /\ simulator = NoSimulator
    /\ keys = NoKeys

NextALU ==
    \/ \E operation \in ArithmeticOperations, size \in {"byte", "word"} :
          \E uleft, uright \in Operands(size) :
              executeArithmetic(operation, uleft, uright, size)
    \/ \E operation \in LogicalOperations, size \in {"byte", "word"} :
          \E left, right \in Operands(size) :
              executeLogical(operation, left, right, size)

SpecALU == InitStore /\ [][NextALU]_vars

-----------------------------------------------------------------------------
(* The functions of the assembler and of the common package: each step is   *)
(* one call; `last` keeps the call and `returned` what it gave back.        *)

\* the call `name(input)` returns `output`, or throws when output.type = "error"
Call(name, input, output) ==
    /\ returned' = output
    /\ last' = [op |-> name, arg |-> input,
                result |-> IF output.type = "error" THEN output.code ELSE "ok"]
    /\ UNCHANGED <<pic, registers, FLAGS, memory, eoiFresh, pc, number, local, events,
                   entry, analysis, alu, instruction, simulator, keys>>

\* throw new RangeError(...), throw new CompilerError(code), ...
Error(code) == [type |-> "error", code |-> code]

InitCalls ==
    /\ MachineIdle
    /\ analysis = NoAnalysis
    /\ alu = NoALU
    /\ returned = NoReturn
    /\ instruction = NoInstruction
    /\ simulator = NoSimulator
    /\ keys = NoKeys

-----------------------------------------------------------------------------
(* Byte (packages/common) *)

\* ByteSize = 8 | 16
ByteSize == {8, 16}

\* new Byte(input, size): #value = input | 0, #size = size
NewByte(input, size) == [type |-> "Byte", value |-> input, size |-> size]

\* Byte.minValue, maxValue, minSignedValue, maxSignedValue
minValue == 0
maxValue(size) == 2 ^ size - 1
minSignedValue(size) == -(2 ^ (size - 1))
maxSignedValue(size) == 2 ^ (size - 1) - 1

\* get unsigned
unsigned(byte) == byte.value

\* get signed
signed(byte) ==
    IF byte.value <= maxSignedValue(byte.size) THEN byte.value
    ELSE byte.value - (maxValue(byte.size) + 1)

\* Number.isSafeInteger(value), for the integers handed in
isSafeInteger(value) == value \in Int

\* Byte.fitsUnsigned
fitsUnsigned(value, size) ==
    isSafeInteger(value) /\ value >= minValue /\ value <= maxValue(size)

\* mutant: a signed value fits when it fits as any n-bit pattern
fitsSigned_AsPattern(value, size) ==
    isSafeInteger(value) /\ value >= minSignedValue(size) /\ value <= maxValue(size)

\* Byte.fitsSigned
fitsSigned(value, size) ==
    isSafeInteger(value) /\ value >= minSignedValue(size) /\ value <= maxSignedValue(size)

\* Byte.fromUnsigned
fromUnsigned(value, size) ==
    IF ~fitsUnsigned(value, size) THEN Error("RangeError")
    ELSE NewByte(value, size)

\* Byte.fromSigned
fromSigned(value, size) ==
    IF ~fitsSigned(value, size) THEN Error("RangeError")
    ELSE IF value < 0 THEN NewByte(value + maxValue(size) + 1, size)
    ELSE NewByte(value, size)

\* the integers handed to the constructors: all around the 8-bit range, and
\* those around the ends of the 16-bit ranges
ByteInputs(size) ==
    IF size = 8 THEN -130..260
    ELSE (-32770..-32766) \cup (-2..2) \cup (32766..32769) \cup (65534..65537)

\* a call of Byte.fromUnsigned(value, size)
CallFromUnsigned ==
    \E size \in ByteSize : \E value \in ByteInputs(size) :
        /\ Call("fromUnsigned", [value |-> value, size |-> size], fromUnsigned(value, size))

\* a call of Byte.fromSigned(value, size)
CallFromSigned ==
    \E size \in ByteSize : \E value \in ByteInputs(size) :
        /\ Call("fromSigned", [value |-> value, size |-> size], fromSigned(value, size))

NextByte == CallFromUnsigned \/ CallFromSigned

SpecByte == InitCalls /\ [][NextByte]_vars

-----------------------------------------------------------------------------
(* The validators of the analyzer (compiler/analyzer/validate): functions  *)
(* of the parser's instruction statement and of the types of the labels.   *)

MaxOperands == 2

\* throw new CompilerError(code, ...)
CompilerError(code) == [type |-> "error", code |-> code, name |-> "CompilerError"]

\* number expressions: a literal, a label (OFFSET label when offset), or the
\* negation of an expression
NumberLiteral(n) == [type |-> "number-literal", value |-> n]
Label(name, offset) == [type |-> "label", value |-> name, offset |-> offset]
Negation(expression) == [type |-> "unary-operation", right |-> expression, operator |-> "-"]

\* the parser's operands: a register, an address ([expression] or [BX],
\* with BYTE PTR, WORD PTR or no size), or a number expression
Register(name) == [type |-> "register", value |-> name]
DirectAddress(size, expression) ==
    [type |-> "address", value |-> expression, size |-> size, mode |-> "direct"]
IndirectAddress(size) == [type |-> "address", size |-> size, mode |-> "indirect"]

\* numberExpressionPattern
numberExpressionPattern(operand) ==
    operand.type \in {"number-literal", "label", "unary-operation", "binary-operation"}

\* wordRegisterPattern
wordRegisterPattern == {"AX", "BX", "CX", "DX", "SP", "IP"}

\* the types of the labels of the program: DATO is a DB, TABLA a DW,
\* LAZO labels an instruction and CINCO is an EQU
LabelTypes == [DATO |-> "DB", LAZO |-> "instruction", TABLA |-> "DW", CINCO |-> "EQU"]

\* labels.get(name)
get(labels, name) == IF name \in DOMAIN labels THEN labels[name] ELSE "undefined"

\* the operands the validators return
RegisterOperand(name) == [type |-> "register", register |-> name]
MemoryDirect(address) == [type |-> "memory", address |-> address, mode |-> "direct"]
MemoryIndirect == [type |-> "memory", mode |-> "indirect"]
ImmediateOperand(value) == [type |-> "immediate", value |-> value]

\* the validated instruction
ValidatedBinary(statement, length, opSize, out, src) ==
    [type |-> statement.instruction,
     opSize |-> opSize,
     out |-> out,
     src |-> src,
     meta |-> [start |-> 0, length |-> length, label |-> NoLabel]]
ValidatedUnary(statement, length, opSize, out) ==
    [type |-> statement.instruction,
     opSize |-> opSize,
     out |-> out,
     meta |-> [start |-> 0, length |-> length, label |-> NoLabel]]

\* typeGuardRegister
typeGuardRegister(reg) ==
    IF reg.value \in wordRegisterPattern
    THEN [type |-> "register", value |-> reg.value, size |-> "word"]
    ELSE [type |-> "register", value |-> reg.value, size |-> "byte"]

\* mutant: only the DB labels have a size
getLabelSize_ByteOnly(label, labels) ==
    IF get(labels, label.value) = "undefined" THEN "label-not-found"
    ELSE IF get(labels, label.value) = "DB" THEN "byte" ELSE "false"

\* getLabelSize: "byte", "word", or "false" for an instruction label or a
\* constant; "label-not-found" stands for the error it throws
getLabelSize(label, labels) ==
    LET labelType == get(labels, label.value)
    IN  IF labelType = "undefined" THEN "label-not-found"
        ELSE IF labelType = "DB" THEN "byte"
        ELSE IF labelType = "DW" THEN "word"
        ELSE "false"

\* labelToMemoryDirect
labelToMemoryDirect(label) == MemoryDirect(Label(label.value, TRUE))

\* src.type === "label" && !src.offset
IsBareLabel(expression) == expression.type = "label" /\ ~expression.offset

\* validateBinaryInstruction: [register, numberExpressionPattern]
RegisterFromExpression(statement, out, src, labels) ==
    LET outReg == typeGuardRegister(out)
        srcSize == getLabelSize(src, labels)
        immediate ==
            ValidatedBinary(statement, 2 + (IF outReg.size = "word" THEN 2 ELSE 1),
                            outReg.size, RegisterOperand(outReg.value), ImmediateOperand(src))
    IN  IF IsBareLabel(src)
        THEN IF srcSize = "label-not-found" THEN CompilerError("label-not-found")
             ELSE IF srcSize # "false"
             THEN IF outReg.size # srcSize THEN CompilerError("size-mismatch")
                  ELSE ValidatedBinary(statement, 4, outReg.size,
                                       RegisterOperand(outReg.value), labelToMemoryDirect(src))
             ELSE immediate
        ELSE immediate

\* validateBinaryInstruction: [address, numberExpressionPattern]
AddressFromExpression(statement, out, src, labels) ==
    IF IsBareLabel(src) /\ getLabelSize(src, labels) = "label-not-found"
    THEN CompilerError("label-not-found")
    ELSE IF IsBareLabel(src) /\ getLabelSize(src, labels) # "false"
    THEN CompilerError("double-memory-access")
    ELSE IF out.size = "auto" THEN CompilerError("unknown-size")
    ELSE IF out.mode = "direct"
    THEN ValidatedBinary(statement, 3 + (IF out.size = "word" THEN 2 ELSE 1), out.size,
                         MemoryDirect(out.value), ImmediateOperand(src))
    ELSE ValidatedBinary(statement, 1 + (IF out.size = "word" THEN 2 ELSE 1), out.size,
                         MemoryIndirect, ImmediateOperand(src))

\* validateBinaryInstruction: [numberExpressionPattern, register]
ExpressionFromRegister(statement, out, src, labels) ==
    LET outSize == getLabelSize(out, labels)
        srcReg == typeGuardRegister(src)
    IN  IF ~IsBareLabel(out) THEN CompilerError("destination-cannot-be-immediate")
        ELSE IF outSize = "label-not-found" THEN CompilerError("label-not-found")
        ELSE IF outSize = "false" THEN CompilerError("label-should-be-writable")
        ELSE IF outSize # srcReg.size THEN CompilerError("size-mismatch")
        ELSE ValidatedBinary(statement, 4, outSize, labelToMemoryDirect(out),
                             RegisterOperand(srcReg.value))

\* validateBinaryInstruction: [numberExpressionPattern, address]
ExpressionFromAddress(statement, out, src, labels) ==
    IF ~IsBareLabel(out) THEN CompilerError("destination-cannot-be-immediate")
    ELSE IF getLabelSize(out, labels) = "label-not-found" THEN CompilerError("label-not-found")
    ELSE IF getLabelSize(out, labels) = "false"
    THEN CompilerError("destination-cannot-be-immediate")
    ELSE CompilerError("double-memory-access")

\* validateBinaryInstruction: [numberExpressionPattern, numberExpressionPattern]
ExpressionFromExpression(statement, out, src, labels) ==
    LET outSize == getLabelSize(out, labels)
    IN  IF ~IsBareLabel(out) THEN CompilerError("destination-cannot-be-immediate")
        ELSE IF outSize = "label-not-found" THEN CompilerError("label-not-found")
        ELSE IF outSize = "false" THEN CompilerError("label-should-be-writable")
        ELSE IF IsBareLabel(src) /\ getLabelSize(src, labels) = "label-not-found"
        THEN CompilerError("label-not-found")
        ELSE IF IsBareLabel(src) /\ getLabelSize(src, labels) # "false"
        THEN CompilerError("double-memory-access")
        ELSE ValidatedBinary(statement, 3 + (IF outSize = "word" THEN 2 ELSE 1), outSize,
                             labelToMemoryDirect(out), ImmediateOperand(src))

\* validateBinaryInstruction: the patterns, in the order they are matched
validateBinaryInstruction(statement, labels) ==
    IF Len(statement.operands) # 2 THEN CompilerError("expects-two-operands")
    ELSE
    LET out == statement.operands[1]
        src == statement.operands[2]
        outReg == typeGuardRegister(out)
        srcReg == typeGuardRegister(src)
    IN  IF out.type = "register" /\ src.type = "register"
        THEN IF outReg.size # srcReg.size THEN CompilerError("size-mismatch")
             ELSE ValidatedBinary(statement, 3, outReg.size,
                                  RegisterOperand(outReg.value), RegisterOperand(srcReg.value))
        ELSE IF out.type = "register" /\ src.type = "address" /\ src.mode = "direct"
        THEN IF src.size # "auto" /\ outReg.size # src.size THEN CompilerError("size-mismatch")
             ELSE ValidatedBinary(statement, 4, outReg.size,
                                  RegisterOperand(outReg.value), MemoryDirect(src.value))
        ELSE IF out.type = "register" /\ src.type = "address" /\ src.mode = "indirect"
        THEN IF src.size # "auto" /\ outReg.size # src.size THEN CompilerError("size-mismatch")
             ELSE ValidatedBinary(statement, 2, outReg.size,
                                  RegisterOperand(outReg.value), MemoryIndirect)
        ELSE IF out.type = "register" /\ numberExpressionPattern(src)
        THEN RegisterFromExpression(statement, out, src, labels)
        ELSE IF out.type = "address" /\ out.mode = "direct" /\ src.type = "register"
        THEN ValidatedBinary(statement, 4, srcReg.size,
                             MemoryDirect(out.value), RegisterOperand(srcReg.value))
        ELSE IF out.type = "address" /\ out.mode = "indirect" /\ src.type = "register"
        THEN ValidatedBinary(statement, 2, srcReg.size,
                             MemoryIndirect, RegisterOperand(srcReg.value))
        ELSE IF out.type = "address" /\ numberExpressionPattern(src)
        THEN AddressFromExpression(statement, out, src, labels)
        ELSE IF out.type = "address" /\ src.type = "address"
        THEN CompilerError("double-memory-access")
        ELSE IF numberExpressionPattern(out) /\ src.type = "register"
        THEN ExpressionFromRegister(statement, out, src, labels)
        ELSE IF numberExpressionPattern(out) /\ src.type = "address"
        THEN ExpressionFromAddress(statement, out, src, labels)
        ELSE ExpressionFromExpression(statement, out, src, labels)

\* validateUnaryInstruction: numberExpressionPattern
UnaryExpression(statement, out, labels) ==
    LET outType == get(labels, out.value)
        outSize == IF outType = "DB" THEN "byte" ELSE IF outType = "DW" THEN "word" ELSE "false"
    IN  IF ~IsBareLabel(out) THEN CompilerError("destination-cannot-be-immediate")
        ELSE IF outType = "undefined" THEN CompilerError("label-not-found")
        ELSE IF outSize = "false" THEN CompilerError("label-should-be-writable")
        ELSE ValidatedUnary(statement, 3, outSize, MemoryDirect(Label(out.value, TRUE)))

\* validateUnaryInstruction
validateUnaryInstruction(statement, labels) ==
    IF Len(statement.operands) # 1 THEN CompilerError("expects-one-operand")
    ELSE
    LET out == statement.operands[1]
        reg == typeGuardRegister(out)
    IN  IF out.type = "register"
        THEN ValidatedUnary(statement, 2, reg.size, RegisterOperand(reg.value))
        ELSE IF out.type = "address" /\ out.mode = "direct"
        THEN IF out.size = "auto" THEN CompilerError("unknown-size")
             ELSE ValidatedUnary(statement, 3, out.size, MemoryDirect(out.value))
        ELSE IF out.type = "address" /\ out.mode = "indirect"
        THEN IF out.size = "auto" THEN CompilerError("unknown-size")
             ELSE ValidatedUnary(statement, 1, out.size, MemoryIndirect)
        ELSE UnaryExpression(statement, out, labels)

\* the mnemonics and the operands written in the programs
BinaryInstructionType == {"MOV", "ADD"}
UnaryInstructionType == {"INC", "NEG"}
PtrSizes == {"byte", "word", "auto"}
ParserOperands ==
    {Register("AL"), Register("AX")}
        \cup {DirectAddress(size, NumberLiteral(16)) : size \in PtrSizes}
        \cup {IndirectAddress(size) : size \in PtrSizes}
        \cup {NumberLiteral(1), Negation(NumberLiteral(1)), Label("DATO", TRUE)}
        \cup {Label(name, FALSE) : name \in {"DATO", "TABLA", "LAZO", "NADA"}}
ParserOperandLists == UNION {[1..n -> ParserOperands] : n \in 0..MaxOperands}

\* the parser's instruction statement
InstructionStatement(mnemonic, operands) == [instruction |-> mnemonic, operands |-> operands]

\* one call of validateBinaryInstruction
CallValidateBinaryInstruction ==
    /\ returned = NoReturn
    /\ \E mnemonic \in BinaryInstructionType : \E operands \in ParserOperandLists :
          Call("validateBinaryInstruction", InstructionStatement(mnemonic, operands),
               validateBinaryInstruction(InstructionStatement(mnemonic, operands), LabelTypes))

\* one call of validateUnaryInstruction
CallValidateUnaryInstruction ==
    /\ returned = NoReturn
    /\ \E mnemonic \in UnaryInstructionType : \E operands \in ParserOperandLists :
          Call("validateUnaryInstruction", InstructionStatement(mnemonic, operands),
               validateUnaryInstruction(InstructionStatement(mnemonic, operands), LabelTypes))

NextValidate == CallValidateBinaryInstruction \/ CallValidateUnaryInstruction

SpecValidate == InitCalls /\ [][NextValidate]_vars

-----------------------------------------------------------------------------
(* The INT statement of the assembler: the class IntInstruction           *)
(* (packages/assembler), whose object `instruction` holds, and the older  *)
(* function validateIntInstruction (compiler/analyzer).                   *)

\* null, and the result of a method that returns nothing
null == [type |-> "null"]
undefined == [type |-> "undefined"]

\* NumberExpression.evaluate
RECURSIVE evaluate(_)
evaluate(expression) ==
    IF expression.type = "number-literal" THEN expression.value
    ELSE -evaluate(expression.right)

\* operands: an immediate, a register, or [BX]
NumberExpressionOperand(expression) == [type |-> "number-expression", value |-> expression]
IndirectOperand == [type |-> "indirect-address"]

\* Operand.isNumberExpression
isNumberExpression(operand) == operand.type = "number-expression"

\* new IntInstruction("INT", operands, label, position)
NewIntInstruction(operands) ==
    [type |-> "IntInstruction", value |-> null, operands |-> operands, initialValue |-> null]

\* IntInstruction: get length
length(statement) == 2

\* a method of `instruction` leaves the object as `object` and returns or
\* throws `output`
Method(name, input, object, output) ==
    /\ instruction' = object
    /\ returned' = output
    /\ last' = [op |-> name, arg |-> input,
                result |-> IF output.type = "error" THEN output.code ELSE "ok"]
    /\ UNCHANGED <<pic, registers, FLAGS, memory, eoiFresh, pc, number, local, events,
                   entry, analysis, alu, simulator, keys>>

\* the literals written in the programs, and the operands built from them
IntLiterals == {0, 255, 256}
NumberExpressions ==
    {NumberLiteral(n) : n \in IntLiterals}
        \cup {Negation(NumberLiteral(n)) : n \in {1}}
Operands8086 ==
    {NumberExpressionOperand(expression) : expression \in NumberExpressions}
        \cup {RegisterOperand("AL"), IndirectOperand}
OperandLists == UNION {[1..n -> Operands8086] : n \in 0..MaxOperands}

\* IntInstruction: constructor
IntInstruction ==
    \E operands \in OperandLists :
        /\ Method("IntInstruction", operands, NewIntInstruction(operands), undefined)

\* IntInstruction.validate
validate ==
    /\ instruction.type = "IntInstruction"
    /\ IF instruction.initialValue # null
       THEN Method("validate", instruction, instruction, Error("Instruction already validated"))
       ELSE IF Len(instruction.operands) # 1
       THEN Method("validate", instruction, instruction, CompilerError("expects-one-operand"))
       ELSE IF ~isNumberExpression(instruction.operands[1])
       THEN Method("validate", instruction, instruction, CompilerError("expects-immediate"))
       ELSE Method("validate", instruction,
                   [instruction EXCEPT !.initialValue = instruction.operands[1].value],
                   undefined)

\* mutant: an interrupt number fits when it fits in a word
fitsInterrupt_Word(computed) == fitsUnsigned(computed, 16)

\* IntInstruction.evaluateExpressions: Byte.fitsUnsigned(computed, 8)
fitsInterrupt(computed) == fitsUnsigned(computed, 8)

\* IntInstruction.evaluateExpressions
evaluateExpressions ==
    /\ instruction.type = "IntInstruction"
    /\ IF instruction.initialValue = null
       THEN Method("evaluateExpressions", instruction, instruction,
                   Error("Instruction not validated"))
       ELSE IF instruction.value # null
       THEN Method("evaluateExpressions", instruction, instruction,
                   Error("Instruction aready evaluated"))
       ELSE LET computed == evaluate(instruction.initialValue)
                byte == fromUnsigned(computed, 8)
            IN  IF ~fitsInterrupt(computed)
                THEN Method("evaluateExpressions", instruction, instruction,
                            CompilerError("invalid-interrupt"))
                ELSE IF byte.type = "error"
                THEN Method("evaluateExpressions", instruction, instruction, byte)
                ELSE Method("evaluateExpressions", instruction,
                            [instruction EXCEPT !.value = byte], undefined)

\* validateIntInstruction(instruction) of the analyzer
validateIntInstruction(operands) ==
    IF Len(operands) # 1 THEN CompilerError("INT expects one operand.")
    ELSE IF ~numberExpressionPattern(operands[1])
    THEN CompilerError("This instruction expects a interruption number.")
    ELSE [type |-> "INT",
          meta |-> [start |-> 0, length |-> 2, label |-> NoLabel],
          interruption |-> operands[1]]

\* a call of validateIntInstruction, by the analyzer, which has no
\* IntInstruction objects
CallValidateIntInstruction ==
    /\ instruction = NoInstruction
    /\ returned = NoReturn
    /\ \E operands \in ParserOperandLists :
          Call("validateIntInstruction", [operands |-> operands],
               validateIntInstruction(operands))

NextIntInstruction ==
    \/ IntInstruction
    \/ validate
    \/ evaluateExpressions
    \/ CallValidateIntInstruction

SpecIntInstruction == InitCalls /\ [][NextIntInstruction]_vars

-----------------------------------------------------------------------------
(* The parser (compiler/parser): Parser.parseTokens, a function of the     *)
(* list of tokens. The programs parsed have no operators, parentheses,     *)
(* brackets or strings, so a number expression is a primary one.           *)

MaxLines == 3

\* a token; the lexeme of a NUMBER is its digits and its suffix
Token(type, lexeme) == [type |-> type, lexeme |-> lexeme]

\* DATA_DIRECTIVES, INSTRUCTIONS, REGISTERS
DATA_DIRECTIVES == {"DB", "DW"}
INSTRUCTIONS == {"HLT", "INC", "MOV"}
REGISTERS == {"AL", "AX", "BX"}

\* the result of a parsing function that does not throw: its value and the
\* new value of this.current
Parsed(value, current) == [type |-> "parsed", value |-> value, current |-> current]

\* peek, check, checkNext, isAtEnd (this.current counted from 1)
peek(tokens, current) == tokens[current]
check(tokens, current, type) == peek(tokens, current).type = type
checkNext(tokens, current, type) == tokens[current + 1].type = type
isAtEnd(tokens, current) == check(tokens, current, "EOF")

\* parseInt(digits, base)
RECURSIVE parseInt(_, _)
parseInt(digits, base) ==
    IF digits = <<>> THEN 0
    ELSE parseInt(SubSeq(digits, 1, Len(digits) - 1), base) * base + digits[Len(digits)]

\* parseNumber
parseNumber(t) ==
    IF t.lexeme.suffix \in {"h", "H"} THEN parseInt(t.lexeme.digits, 16)
    ELSE IF t.lexeme.suffix \in {"b", "B"} THEN parseInt(t.lexeme.digits, 2)
    ELSE parseInt(t.lexeme.digits, 10)

\* mutant: labels keep their case
toUpperCase_Identity(lexeme) == lexeme

\* String.toUpperCase, on the identifiers of the programs
toUpperCase(lexeme) ==
    CASE lexeme = "x" -> "X"
      [] lexeme = "y" -> "Y"
      [] OTHER -> lexeme

\* while (this.check("EOL")) this.advance()
RECURSIVE skipEOL(_, _)
skipEOL(tokens, current) ==
    IF check(tokens, current, "EOL") THEN skipEOL(tokens, current + 1) ELSE current

\* expectEOL
expectEOL(tokens, current) ==
    IF isAtEnd(tokens, current)
    THEN CompilerError("The program must end with an END instruction.")
    ELSE IF ~check(tokens, current, "EOL") THEN CompilerError("Expected EOL")
    ELSE Parsed(peek(tokens, current), current + 1)

\* Parser.label
label(tokens, current, statements) ==
    IF ~check(tokens, current, "IDENTIFIER") \/ ~checkNext(tokens, current, "COLON")
    THEN Parsed(NoLabel, current)
    ELSE LET name == toUpperCase(peek(tokens, current).lexeme)
         IN  IF \E k \in 1..Len(statements) :
                    /\ "label" \in DOMAIN statements[k]
                    /\ statements[k].label = name
             THEN CompilerError("Duplicated label")
             ELSE Parsed(name, skipEOL(tokens, current + 2))

\* primaryNE: a number, OFFSET label, or a label
primaryNE(tokens, current) ==
    IF check(tokens, current, "NUMBER")
    THEN Parsed(NumberLiteral(parseNumber(peek(tokens, current))), current + 1)
    ELSE IF check(tokens, current, "OFFSET")
    THEN IF ~check(tokens, current + 1, "IDENTIFIER")
         THEN CompilerError("Expected label after OFFSET")
         ELSE Parsed(Label(toUpperCase(peek(tokens, current + 1).lexeme), TRUE), current + 2)
    ELSE IF check(tokens, current, "IDENTIFIER")
    THEN Parsed(Label(toUpperCase(peek(tokens, current).lexeme), FALSE), current + 1)
    ELSE CompilerError("Expected argument")

\* numberExpression
numberExpression(tokens, current) == primaryNE(tokens, current)

\* dataDirectiveValue
dataDirectiveValue(tokens, current) ==
    IF check(tokens, current, "QUESTION_MARK")
    THEN Parsed([type |-> "unassigned"], current + 1)
    ELSE numberExpression(tokens, current)

\* instructionOperand
instructionOperand(tokens, current) ==
    IF peek(tokens, current).type \in REGISTERS
    THEN Parsed(Register(peek(tokens, current).type), current + 1)
    ELSE IF check(tokens, current, "IDENTIFIER")
    THEN Parsed([type |-> "memory-direct",
                 label |-> toUpperCase(peek(tokens, current).lexeme)], current + 1)
    ELSE LET calc == numberExpression(tokens, current)
         IN  IF calc.type = "error" THEN calc
             ELSE Parsed(ImmediateOperand(calc.value), calc.current)

\* one value of a data directive or one operand of an instruction
listItem(kind, tokens, current) ==
    IF kind = "data" THEN dataDirectiveValue(tokens, current)
    ELSE instructionOperand(tokens, current)

\* the first value or operand, then while (this.check("COMMA")) one more
RECURSIVE commaList(_, _, _, _)
commaList(kind, tokens, current, items) ==
    LET item == listItem(kind, tokens, current)
    IN  IF item.type = "error" THEN item
        ELSE IF check(tokens, item.current, "COMMA")
        THEN commaList(kind, tokens, item.current + 1, Append(items, item.value))
        ELSE Parsed(Append(items, item.value), item.current)

\* parseTokens: what it returns
Statements(statements) == [type |-> "statements", statements |-> statements]

\* parseTokens: the while loop, from this.current with this.statements
RECURSIVE parseLoop(_, _, _)

\* parseTokens: a data directive, after its label and its token
dataStatement(tokens, token, name, current, statements) ==
    LET values == commaList("data", tokens, current, <<>>)
        eol == expectEOL(tokens, values.current)
    IN  IF values.type = "error" THEN values
        ELSE IF eol.type = "error" THEN eol
        ELSE parseLoop(tokens, eol.current,
                       Append(statements, [type |-> "data",
                                           label |-> name,
                                           values |-> values.value,
                                           directive |-> token.type]))

\* parseTokens: an instruction, after its label and its token
instructionStatement(tokens, token, name, current, statements) ==
    LET operands == commaList("instruction", tokens, current, <<>>)
        eol == expectEOL(tokens, operands.current)
    IN  IF check(tokens, current, "EOL")
        THEN parseLoop(tokens, current,
                       Append(statements, [instruction |-> token.type,
                                           type |-> "instruction",
                                           label |-> name,
                                           operands |-> <<>>]))
        ELSE IF operands.type = "error" THEN operands
        ELSE IF eol.type = "error" THEN eol
        ELSE parseLoop(tokens, eol.current,
                       Append(statements, [instruction |-> token.type,
                                           type |-> "instruction",
                                           label |-> name,
                                           operands |-> operands.value]))

\* parseTokens: ORG
originChange(tokens, current, statements) ==
    LET eol == expectEOL(tokens, current + 2)
    IN  IF ~check(tokens, current + 1, "NUMBER")
        THEN CompilerError("Expected address after ORG")
        ELSE IF eol.type = "error" THEN eol
        ELSE parseLoop(tokens, eol.current,
                       Append(statements,
                              [type |-> "origin-change",
                               newAddress |-> parseNumber(peek(tokens, current + 1))]))

\* parseTokens: END
endStatement(tokens, current, statements) ==
    LET next == skipEOL(tokens, current + 1)
    IN  IF ~isAtEnd(tokens, next) THEN CompilerError("END must be the last instruction")
        ELSE parseLoop(tokens, next, Append(statements, [type |-> "end"]))

parseLoop(tokens, current, statements) ==
    IF isAtEnd(tokens, current) THEN Statements(statements)
    ELSE IF check(tokens, current, "EOL") THEN parseLoop(tokens, current + 1, statements)
    ELSE IF check(tokens, current, "ORG") THEN originChange(tokens, current, statements)
    ELSE IF check(tokens, current, "END") THEN endStatement(tokens, current, statements)
    ELSE LET name == label(tokens, current, statements)
             token == peek(tokens, name.current)
         IN  IF name.type = "error" THEN name
             ELSE IF token.type \in DATA_DIRECTIVES
             THEN dataStatement(tokens, token, name.value, name.current + 1, statements)
             ELSE IF token.type \in INSTRUCTIONS
             THEN instructionStatement(tokens, token, name.value, name.current + 1, statements)
             ELSE CompilerError("Expected instruction")

\* parseTokens
parseTokens(tokens) == parseLoop(tokens, 1, <<>>)

\* the tokens of the lines written in the programs
Keyword(type) == Token(type, type)
Identifier(lexeme) == Token("IDENTIFIER", lexeme)
Number(digits, suffix) == Token("NUMBER", [digits |-> digits, suffix |-> suffix])
EndLine == <<Keyword("END")>>
Lines ==
    {<<>>,
     EndLine,
     <<Keyword("HLT")>>,
     <<Identifier("X"), Keyword("COLON"), Keyword("HLT")>>,
     <<Identifier("x"), Keyword("COLON"), Keyword("HLT")>>,
     <<Identifier("X"), Keyword("COLON"), Keyword("DB"), Number(<<1>>, "")>>,
     <<Identifier("y"), Keyword("COLON")>>,
     <<Keyword("INC"), Keyword("AL")>>,
     <<Keyword("ORG"), Number(<<2, 0>>, "h")>>,
     <<Keyword("DB"), Number(<<1, 0>>, "b"), Keyword("COMMA"), Keyword("QUESTION_MARK")>>}
Programs == UNION {[1..n -> Lines] : n \in 0..MaxLines}

\* the lexer's tokens of a program: EOL after every line but the last, which
\* has one when the text ends with a new line, and EOF
RECURSIVE Lexed(_, _)
Lexed(lines, newline) ==
    IF lines = <<>> THEN <<Keyword("EOF")>>
    ELSE IF Len(lines) = 1 /\ ~newline THEN lines[1] \o <<Keyword("EOF")>>
    ELSE lines[1] \o <<Keyword("EOL")>> \o Lexed(Tail(lines), newline)

\* one call of new Parser(tokens).parseTokens()
CallParseTokens ==
    /\ returned = NoReturn
    /\ \E lines \in Programs : \E newline \in BOOLEAN :
          Call("parseTokens", [lines |-> lines, newline |-> newline],
               parseTokens(Lexed(lines, newline)))

NextParser == CallParseTokens

SpecParser == InitCalls /\ [][NextParser]_vars

-----------------------------------------------------------------------------
(* The compiler's check of the EQU definitions (Compiler.checkLoopsInLabels) *)

MaxEqu == 3

\* parser.EQUDef(l, e), with the labels of the expression e, and any other
\* parsed instruction
EQUDef(l, labels) == [type |-> "EQUDef", label |-> l, labels |-> labels]
OtherInstruction == [type |-> "other"]

\* Left(error) and Right(x)
Left(x) == [type |-> "Left", value |-> x]
Right(x) == [type |-> "Right", value |-> x]

\* the EQU definitions of ins, in order
equ(ins) == SelectSeq(ins, LAMBDA x : x.type = "Right" /\ x.value.type = "EQUDef")

\* makeGraph: each EQU label with the EQU labels its expression refers to
\* (toMap keeps the last definition of a label)
makeGraph(ins) ==
    LET pairs == equ(ins)
        equLabels == {pairs[k].value.label : k \in 1..Len(pairs)}
        lastOf(l) == CHOOSE k \in 1..Len(pairs) :
                        /\ pairs[k].value.label = l
                        /\ \A j \in (k + 1)..Len(pairs) : pairs[j].value.label # l
    IN  [l \in equLabels |-> pairs[lastOf(l)].value.labels \cap equLabels]

\* mutant: a reference of a label to itself is not counted
getInDegrees_NoSelf(graph) ==
    [k \in DOMAIN graph |-> Cardinality({p \in DOMAIN graph \ {k} : k \in graph[p]})]

\* getInDegrees: for each label, the number of definitions that refer to it
getInDegrees(graph) ==
    [k \in DOMAIN graph |-> Cardinality({p \in DOMAIN graph : k \in graph[p]})]

\* loopyEquStatements: remove the labels nothing refers to until none is left
RECURSIVE loopyEquStatements(_)
loopyEquStatements(g) ==
    LET inDegrees == getInDegrees(g)
        edges == {k \in DOMAIN g : inDegrees[k] = 0}
    IN  IF edges = {} THEN DOMAIN g
        ELSE loopyEquStatements([k \in DOMAIN g \ edges |-> g[k] \ edges])

\* checkLoopsInLabels
checkLoopsInLabels(ins) ==
    LET loopyLabels == loopyEquStatements(makeGraph(ins))
    IN  [k \in 1..Len(ins) |->
            IF ins[k].type = "Right" /\ ins[k].value.type = "EQUDef"
               /\ ins[k].value.label \in loopyLabels
            THEN Left("loopsInEqu")
            ELSE ins[k]]

\* the labels of the programs, and the labels an expression refers to: none,
\* one or two
LabelNames == <<"A", "B", "C", "D", "E">>
EquLabels == {LabelNames[k] : k \in 1..MaxEqu}
ExpressionLabels == {{a, b} : a, b \in EquLabels} \cup {{}}

\* the program that defines the labels of S, in the order of LabelNames, with
\* the expressions of e, and ends with another instruction
RECURSIVE Definitions(_, _, _)
Definitions(S, e, k) ==
    IF k > Len(LabelNames) THEN <<Right(OtherInstruction)>>
    ELSE IF LabelNames[k] \in S
    THEN <<Right(EQUDef(LabelNames[k], e[LabelNames[k]]))>> \o Definitions(S, e, k + 1)
    ELSE Definitions(S, e, k + 1)

\* checkLoopsInLabels returns a list, or the call threw
ParsingResult(ins) == [type |-> "ParsingResult", ins |-> ins]

\* one call of checkLoopsInLabels
CallCheckLoopsInLabels ==
    /\ returned = NoReturn
    /\ \E S \in SUBSET EquLabels : \E e \in [S -> ExpressionLabels] :
          Call("checkLoopsInLabels", Definitions(S, e, 1),
               ParsingResult(checkLoopsInLabels(Definitions(S, e, 1))))

NextEqu == CallCheckLoopsInLabels

SpecEqu == InitCalls /\ [][NextEqu]_vars

-----------------------------------------------------------------------------
(* The computer store (simulator/environment/computer): its memory and its  *)
(* registers as the store constructs them, and one step per call of         *)
(* getMemory, setMemory, getRegister or setRegister.                        *)

\* memory: new Array(MEMORY_SIZE).fill(0)
ZeroMemory == [a \in {} |-> 0]

\* registers of the store at construction
StoreRegisters ==
    [SP |-> MEMORY_SIZE,
     IP |-> INITIAL_IP,
     AX |-> 0,
     BX |-> 0,
     IR |-> 0,
     CX |-> 0,
     DX |-> 0,
     MAR |-> 0,
     MBR |-> 0]

\* the store with nothing running on it
StoreIdle(regs) ==
    /\ pic = InitPIC
    /\ registers = regs
    /\ FLAGS = [interrupt |-> FALSE,
                carry |-> FALSE,
                zero |-> TRUE,
                sign |-> FALSE,
                overflow |-> FALSE]
    /\ memory = ZeroMemory
    /\ last = [op |-> "init", arg |-> NoLine, result |-> "ok"]
    /\ eoiFresh = FALSE
    /\ pc = "idle"
    /\ number = 0
    /\ local = NoLocal
    /\ events = <<>>
    /\ entry = NoEntry
    /\ analysis = NoAnalysis
    /\ alu = InitALU
    /\ returned = NoReturn
    /\ instruction = NoInstruction
    /\ simulator = NoSimulator
    /\ keys = NoKeys

\* a call on the store: what it was given, whether it threw, what it returned
StoreCall(name, input, ok, value) ==
    /\ last' = [op |-> name, arg |-> input, result |-> IF ok THEN "ok" ELSE "error"]
    /\ returned' = IF ok THEN [type |-> "value", value |-> value]
                         ELSE Error("out-of-range")
    /\ UNCHANGED <<pic, FLAGS, eoiFresh, pc, number, local, events, entry, analysis, alu,
                   instruction, simulator, keys>>

\* the addresses and values the instructions hand to the memory
Addresses == {-1, 0, 1, MAX_MEMORY_ADDRESS - 1, MAX_MEMORY_ADDRESS, MEMORY_SIZE}
Values(size) == IF size = "byte" THEN {0, 255} ELSE {0, 258, 65535}

CallGetMemory ==
    \E address \in Addresses, size \in {"byte", "word"} :
        /\ StoreCall("getMemory", [value |-> 0, address |-> address, size |-> size],
                     getMemory(memory, address, size).ok,
                     getMemory(memory, address, size).value)
        /\ UNCHANGED <<memory, registers>>

CallSetMemory ==
    \E address \in Addresses, size \in {"byte", "word"} :
        \E value \in Values(size) :
            /\ StoreCall("setMemory", [value |-> value, address |-> address, size |-> size],
                         setMemory(memory, address, size, value).ok, 0)
            /\ memory' = setMemory(memory, address, size, value).memory
            /\ UNCHANGED registers

InitMemory == StoreIdle(StoreRegisters)

NextMemory == CallGetMemory \/ CallSetMemory

SpecMemory == InitMemory /\ [][NextMemory]_vars

\* RegisterType: the word registers of the store and the halves of AX..DX
StoreWordRegisters == {"AX", "BX", "CX", "DX", "IP", "IR", "SP", "MAR", "MBR"}
ByteRegisters == {"AL", "AH", "BL", "BH", "CL", "CH", "DL", "DH"}

\* register[0] + "X"
WordRegisterOf(register) ==
    CASE register \in {"AL", "AH"} -> "AX"
      [] register \in {"BL", "BH"} -> "BX"
      [] register \in {"CL", "CH"} -> "CX"
      [] register \in {"DL", "DH"} -> "DX"

\* register[1]
HalfOf(register) == IF register \in {"AL", "BL", "CL", "DL"} THEN "L" ELSE "H"

getRegister(regs, register) ==
    CASE register = "AL" -> splitLowHigh(regs.AX)[1]
      [] register = "AH" -> splitLowHigh(regs.AX)[2]
      [] register = "BL" -> splitLowHigh(regs.BX)[1]
      [] register = "BH" -> splitLowHigh(regs.BX)[2]
      [] register = "CL" -> splitLowHigh(regs.CX)[1]
      [] register = "CH" -> splitLowHigh(regs.CX)[2]
      [] register = "DL" -> splitLowHigh(regs.DX)[1]
      [] register = "DH" -> splitLowHigh(regs.DX)[2]
      [] register \in StoreWordRegisters -> regs[register]

\* mutant: a byte register replaces the whole word register
setRegister_WholeWord(regs, register, value) ==
    IF register \in StoreWordRegisters
    THEN [regs EXCEPT ![register] = value]
    ELSE [regs EXCEPT ![WordRegisterOf(register)] = value]

setRegister(regs, register, value) ==
    IF register \in StoreWordRegisters
    THEN [regs EXCEPT ![register] = value]
    ELSE LET wordRegister == WordRegisterOf(register)
             low == IF HalfOf(register) = "L"
                    THEN value ELSE splitLowHigh(regs[wordRegister])[1]
             high == IF HalfOf(register) = "H"
                     THEN value ELSE splitLowHigh(regs[wordRegister])[2]
         IN  [regs EXCEPT ![wordRegister] = joinLowHigh(low, high)]

\* the registers and values the instructions hand to the store
WrittenWordRegisters == {"AX"}
RegisterValues(register) == IF register \in ByteRegisters THEN {255} ELSE {258}

CallGetRegister ==
    \E register \in ByteRegisters \cup WrittenWordRegisters :
        /\ StoreCall("getRegister", [value |-> 0, register |-> register], TRUE,
                     getRegister(registers, register))
        /\ UNCHANGED <<memory, registers>>

CallSetRegister ==
    \E register \in ByteRegisters \cup WrittenWordRegisters :
        \E value \in RegisterValues(register) :
            /\ StoreCall("setRegister", [value |-> value, register |-> register], TRUE, 0)
            /\ registers' = setRegister(registers, register, value)
            /\ UNCHANGED memory

InitRegisters == StoreIdle(StoreRegisters)

NextRegisters == CallGetRegister \/ CallSetRegister

SpecRegisters == InitRegisters /\ [][NextRegisters]_vars

-----------------------------------------------------------------------------
(* The Simulator object (packages/simulator): the computer it holds, the    *)
(* computers it has made, the devices objects and the event streams it has  *)
(* handed out. A device keeps the calls it has received and a CPU the       *)
(* number of events it has produced.                                        *)

\* loadProgram is called at most MaxLoads times
MaxLoads == 1
\* at most MaxPokes device calls are made in all
MaxPokes == 1
\* at most MaxStreams event streams are started, each read for MaxEvents events
MaxStreams == 1
MaxEvents == 1
\* the property `devices` is read at most MaxHandles times
MaxHandles == 1

DeviceNames == {"clock", "f10", "keyboard", "leds", "printer", "screen", "switches"}

\* ComputerOptions.devices, as the set of devices the computer connects
Configurations ==
    {{"leds", "switches"}, {"clock", "f10", "keyboard", "printer", "screen"}}

\* a device as constructed
NewDevice(name) == [type |-> name, calls |-> <<>>]

\* new Computer({ program, devices, data, previous })
NewComputer(devices) ==
    [type |-> "Computer",
     io |-> [d \in DeviceNames |-> IF d \in devices THEN NewDevice(d) ELSE null],
     cpu |-> [events |-> 0, type |-> "CPU"]]

\* new Simulator(): #computer is a computer with no device connected
NewSimulator ==
    [type |-> "Simulator",
     computer |-> 1,
     computers |-> <<NewComputer({})>>,
     handles |-> <<>>,
     streams |-> <<>>]

\* a step of the simulator: what was called, on what, and what came of it
SimulatorCall(name, input, result, output) ==
    /\ last' = [op |-> name, arg |-> input, result |-> result]
    /\ returned' = output
    /\ UNCHANGED <<pic, registers, FLAGS, memory, eoiFresh, pc, number, local, events,
                   entry, analysis, alu, instruction, keys>>

\* loadProgram(options): this.#computer = new Computer({ ...options, previous })
loadProgram ==
    /\ Len(simulator.computers) < 1 + MaxLoads
    /\ \E devices \in Configurations :
          /\ simulator' = [simulator EXCEPT
                              !.computers = Append(@, NewComputer(devices)),
                              !.computer = Len(simulator.computers) + 1]
          /\ SimulatorCall("loadProgram", devices, "ok", undefined)

\* getComputerState(): this.#computer?.toJSON() || null
getComputerState ==
    /\ simulator' = simulator
    /\ SimulatorCall("getComputerState", simulator.computer, "ok",
                     [type |-> "ComputerState",
                      value |-> simulator.computers[simulator.computer]])

\* startCPU(): this.#computer.cpu.run()
startCPU ==
    /\ Len(simulator.streams) < MaxStreams
    /\ simulator' = [simulator EXCEPT
                        !.streams = Append(@, [type |-> "EventGenerator",
                                               computer |-> simulator.computer])]
    /\ SimulatorCall("startCPU", simulator.computer, "ok", undefined)

\* the consumer of an event stream takes its next event from the CPU that runs it
NextEvent ==
    \E s \in DOMAIN simulator.streams :
        LET c == simulator.streams[s].computer
        IN  /\ simulator.computers[c].cpu.events < MaxEvents
            /\ simulator' = [simulator EXCEPT !.computers[c].cpu.events = @ + 1]
            /\ SimulatorCall("next", s, "ok", undefined)

\* get devices(): an object of closures over `this`
devices ==
    /\ Len(simulator.handles) < MaxHandles
    /\ simulator' = [simulator EXCEPT
                        !.handles = Append(@, [type |-> "devices",
                                               obtained |-> simulator.computer])]
    /\ SimulatorCall("devices", simulator.computer, "ok", undefined)

\* mutant: the closures hold the computer the simulator was constructed with
Target_First(handle) == 1

\* mutant: the closures hold the computer that was loaded when `devices` was read
Target_WhenObtained(handle) == handle.obtained

\* this.#computer, read when the closure runs
Target(handle) == simulator.computer

\* the pokes of the devices object, and the method of the device each one calls
Pokes ==
    {[device |-> "clock", method |-> "tick"],
     [device |-> "f10", method |-> "press"],
     [device |-> "keyboard", method |-> "readChar"],
     [device |-> "printer", method |-> "clear"],
     [device |-> "printer", method |-> "print"],
     [device |-> "screen", method |-> "clear"],
     [device |-> "switches", method |-> "toggle"]}
DeviceMethod(poke) ==
    IF poke.method = "readChar" THEN "setLastCharRead" ELSE poke.method

RECURSIVE CallsOf(_, _)
CallsOf(computers, names) ==
    IF computers = <<>> THEN 0
    ELSE IF names = {} THEN CallsOf(Tail(computers), DeviceNames)
    ELSE LET d == CHOOSE d \in names : TRUE
             device == Head(computers).io[d]
         IN  (IF device = null THEN 0 ELSE Len(device.calls))
             + CallsOf(computers, names \ {d})

\* devices.<device>.<method>(): if (this.#computer.io.<device>) the device's
\* method is called, else a warning is printed
Poke ==
    /\ CallsOf(simulator.computers, DeviceNames) < MaxPokes
    /\ \E h \in DOMAIN simulator.handles, poke \in Pokes :
          LET c == Target(simulator.handles[h])
              device == simulator.computers[c].io[poke.device]
          IN  IF device # null
              THEN /\ simulator' = [simulator EXCEPT
                                       !.computers[c].io[poke.device].calls =
                                           Append(@, DeviceMethod(poke))]
                   /\ SimulatorCall("poke", [handle |-> h,
                                             device |-> poke.device,
                                             method |-> poke.method], "ok", undefined)
              ELSE /\ simulator' = simulator
                   /\ SimulatorCall("poke", [handle |-> h,
                                             device |-> poke.device,
                                             method |-> poke.method], "warn", undefined)

InitSimulator ==
    /\ MachineIdle
    /\ analysis = NoAnalysis
    /\ alu = NoALU
    /\ returned = NoReturn
    /\ instruction = NoInstruction
    /\ simulator = NewSimulator
    /\ keys = NoKeys

NextSimulator ==
    \/ loadProgram
    \/ getComputerState
    \/ startCPU
    \/ NextEvent
    \/ devices
    \/ Poke

SpecSimulator == InitSimulator /\ [][NextSimulator]_vars

-----------------------------------------------------------------------------
(* The switches of the web application (KeysUI): the positions `value` of   *)
(* the switches and the ports PA (48) and CA (50) of the I/O memory they    *)
(* read and write.                                                          *)

\* the switches 0..MaxSwitch are used, and the ports hold these bits only
MaxSwitch == 1

SwitchBits == 0..MaxSwitch
PortValues == 0..(2 ^ (MaxSwitch + 1) - 1)

\* a & b, on the bits of the switches
RECURSIVE BitAnd(_, _, _)
BitAnd(a, b, i) ==
    IF i > MaxSwitch THEN 0
    ELSE (IF bit(a, i) /\ bit(b, i) THEN 2 ^ i ELSE 0) + BitAnd(a, b, i + 1)

\* var value = Word(readIO(48).toInt & readIO(50).toInt)
NewKeysUI(PA, CA) == [type |-> "KeysUI", value |-> BitAnd(PA, CA, 0), PA |-> PA, CA |-> CA]

\* a step of the switches
KeysCall(name, input) ==
    /\ last' = [op |-> name, arg |-> input, result |-> "ok"]
    /\ UNCHANGED <<pic, registers, FLAGS, memory, eoiFresh, pc, number, local, events,
                   entry, analysis, alu, returned, instruction, simulator>>

\* reset(): value = PA & CA
reset ==
    /\ keys' = [keys EXCEPT !.value = BitAnd(keys.PA, keys.CA, 0)]
    /\ KeysCall("reset", 0)

\* CA.bit(i) == 1
Drives(CA, i) == bit(CA, i)

\* toggleBit(i): the switch changes position, and the bit of PA is inverted
\* when the bit of CA is 1
toggleBit(i) ==
    /\ keys' = [keys EXCEPT
                   !.value = IF ~bit(keys.value, i) THEN OrMask(@, i) ELSE AndNotMask(@, i),
                   !.PA = IF Drives(keys.CA, i)
                          THEN IF ~bit(@, i) THEN OrMask(@, i) ELSE AndNotMask(@, i)
                          ELSE @]
    /\ KeysCall("toggleBit", i)

\* the program writes CA: OUT to port 50
writeCA(v) ==
    /\ keys' = [keys EXCEPT !.CA = v]
    /\ KeysCall("writeCA", v)

InitKeys ==
    /\ MachineIdle
    /\ analysis = NoAnalysis
    /\ alu = NoALU
    /\ returned = NoReturn
    /\ instruction = NoInstruction
    /\ simulator = NoSimulator
    /\ \E PA, CA \in PortValues : keys = NewKeysUI(PA, CA)

NextKeys ==
    \/ reset
    \/ \E i \in SwitchBits : toggleBit(i)
    \/ \E v \in PortValues : writeCA(v)

SpecKeys == InitKeys /\ [][NextKeys]_vars

-----------------------------------------------------------------------------
(* The PIC with update() called again and again: the specification of what  *)
(* eventually happens. The stack starts with room for one frame,            *)
(* so that the frames it takes are few; update() acknowledges a line        *)
(* whether or not its pushes succeed.                                       *)

InitLive ==
    /\ pic = InitPIC
    /\ registers = [SP |-> 4,
                    IP |-> INITIAL_IP,
                    AX |-> 0,
                    BX |-> 0,
                    IR |-> 0,
                    ri |-> 0,
                    id |-> 0]
    /\ FLAGS = [interrupt |-> FALSE,
                carry |-> FALSE,
                zero |-> TRUE,
                sign |-> FALSE,
                overflow |-> FALSE]
    /\ memory = LoadedMemory
    /\ last = [op |-> "init", arg |-> NoLine, result |-> "ok"]
    /\ eoiFresh = FALSE
    /\ pc = "idle"
    /\ number = 0
    /\ local = NoLocal
    /\ events = <<>>
    /\ entry = NoEntry
    /\ analysis = NoAnalysis
    /\ alu = NoALU
    /\ returned = NoReturn
    /\ instruction = NoInstruction
    /\ simulator = NoSimulator
    /\ keys = NoKeys

\* two devices are wired, to lines 0 and 1; the program masks all lines, line 0
\* or none
LiveLines == {0, 1}

NextLive ==
    \/ \E n \in LiveLines : request(n)
    \/ \E n \in LiveLines : cancel(n)
    \/ UpdateCall
    \/ writeEOI(EOI_COMMAND)
    \/ \E v \in {0, 1, 255} : writeIMR(v)
    \/ \E n \in 0..MaxRemapLine : \E v \in IDValues(n) : writeINT(n, v)
    \/ STI
    \/ CLI

\* the simulator calls update() after every instruction: a call that would
\* change something is not put off for ever
SpecLive == InitLive /\ [][NextLive]_vars /\ WF_vars(UpdateCall)

-----------------------------------------------------------------------------
(* The number helpers (helpers.ts): unsignedToSigned and signedToUnsigned,  *)
(* one call each step.                                                      *)

\* n < 0 ? MAX_SIGNED_VALUE[size] - n : n
signedToUnsigned(n, size) == IF n < 0 THEN MAX_SIGNED_VALUE(size) - n ELSE n

\* the numbers of a size: every byte, and the words around the ends and the
\* middle of the range
UnsignedInputs(size) ==
    IF size = "byte" THEN 0..255 ELSE {0, 1, 32767, 32768, 32769, 65534, 65535}
SignedInputs(size) ==
    IF size = "byte" THEN -128..127 ELSE {-32768, -32767, -1, 0, 1, 32767}

CallUnsignedToSigned ==
    \E size \in {"byte", "word"} : \E n \in UnsignedInputs(size) :
        /\ Call("unsignedToSigned", [n |-> n, size |-> size],
                [type |-> "value", value |-> unsignedToSigned(n, size)])

CallSignedToUnsigned ==
    \E size \in {"byte", "word"} : \E n \in SignedInputs(size) :
        /\ Call("signedToUnsigned", [n |-> n, size |-> size],
                [type |-> "value", value |-> signedToUnsigned(n, size)])

NextHelpers == CallUnsignedToSigned \/ CallSignedToUnsigned

SpecHelpers == InitCalls /\ [][NextHelpers]_vars

-----------------------------------------------------------------------------
(* Vocabulary of the properties *)

\* the step is a call of update()
UpdateStep == last'.op = "update"

\* line n is requested and not masked in PIC registers p
Pending(p, n) == bit(p.IRR, n) /\ ~bit(p.IMR, n)

\* n is the lowest-numbered line that is requested and not masked
LowestPending(p, n) == Pending(p, n) /\ \A j \in IntN : Pending(p, j) => n <= j

StackSame == registers'.SP = registers.SP /\ memory' = memory

TopOfStack(regs, mem, k) == getMemory(mem, regs.SP + 2 * k, "word").value

-----------------------------------------------------------------------------
(* Properties *)

\* C1: after any sequence of request(n), cancel(n), update() and writes to
\* EOI from the initial PIC state, ISR has at most one bit set.
C1_ISRAtMostOneBit == PopCount(pic.ISR) <= 1 /\ pic.ISR \in 0..255

\* C1 witness: a line was dispatched while another request stayed pending.
C1_Witness ==
    /\ last.op = "update" /\ last.result = "dispatch"
    /\ PopCount(pic.ISR) = 1
    /\ pic.IRR # 0

\* C2 as stated: a dispatched line is the lowest-numbered requested and
\* unmasked line, and whenever no line is both requested and unmasked,
\* update() dispatches nothing and changes no PIC register, IP or stack.
C2_Original ==
    [][UpdateStep =>
        /\ last'.result = "dispatch" =>
              \E n \in IntN : LowestPending(pic, n) /\ last'.arg = n /\ pic'.ISR = 2 ^ n
        /\ (\A n \in IntN : ~Pending(pic, n)) =>
              /\ last'.result # "dispatch"
              /\ pic' = pic
              /\ registers'.IP = registers.IP
              /\ StackSame]_vars

\* C2 amended: a dispatched line is the lowest-numbered requested and
\* unmasked line; when no interrupt is in service (ISR = 0) and no line is
\* both requested and unmasked, update() dispatches nothing and changes no
\* PIC register, IP or stack.
C2_LowestLineOrNothing ==
    [][UpdateStep =>
        /\ last'.result = "dispatch" =>
              \E n \in IntN : LowestPending(pic, n) /\ last'.arg = n /\ pic'.ISR = 2 ^ n
        /\ (pic.ISR = 0 /\ \A n \in IntN : ~Pending(pic, n)) =>
              /\ last'.result # "dispatch"
              /\ pic' = pic
              /\ registers'.IP = registers.IP
              /\ StackSame]_vars

\* C2 witness: line last.arg was dispatched while a higher-numbered line was
\* requested and unmasked too.
C2_Witness ==
    /\ last.op = "update" /\ last.result = "dispatch"
    /\ \E j \in IntN : j > last.arg /\ Pending(pic, j)

\* C3: update() never dispatches while ISR is non-zero or IF is 0; in both
\* cases the call leaves IRR, IP and the stack unchanged.
C3_NoDispatchWhenBlocked ==
    [][(UpdateStep /\ (pic.ISR # 0 \/ ~FLAGS.interrupt)) =>
        /\ last'.result # "dispatch"
        /\ pic'.IRR = pic.IRR
        /\ pic'.ISR \in {pic.ISR, 0}
        /\ registers'.IP = registers.IP
        /\ StackSame]_vars

\* C3 witness: update() ran with IF = 0 while a line was requested and
\* unmasked and nothing was in service.
C3_Witness ==
    /\ last.op = "update" /\ last.result = "disabled"
    /\ pic.ISR = 0
    /\ \E n \in IntN : Pending(pic, n)

\* C4: update() with ISR # 0 and EOI = 20h sets ISR and EOI to 0 and
\* dispatches nothing; with ISR # 0 and EOI # 20h it leaves ISR unchanged; and
\* an ISR bit is cleared only by the first update() after a write of 20h to EOI.
C4_EndOfInterrupt ==
    [][/\ (UpdateStep /\ pic.ISR # 0 /\ pic.EOI = 32) =>
              /\ pic'.ISR = 0 /\ pic'.EOI = 0
              /\ last'.result # "dispatch"
              /\ pic'.IRR = pic.IRR /\ registers' = registers /\ memory' = memory
       /\ (UpdateStep /\ pic.ISR # 0 /\ pic.EOI # 32) => pic'.ISR = pic.ISR
       /\ (pic.ISR # 0 /\ pic'.ISR # pic.ISR) => (UpdateStep /\ eoiFresh)]_vars

\* C4 witness: update() just ended the interrupt in service.
C4_Witness ==
    /\ last.op = "update" /\ last.result = "eoi"
    /\ pic.ISR = 0 /\ pic.EOI = 0

\* C5: a dispatch of line n clears bit n of IRR, sets ISR to exactly bit n and
\* resets EOI in one step: no step applies only some of the three changes.
C5_AcknowledgeAtomic ==
    [][((pic.ISR = 0 /\ pic'.ISR # 0) \/ (UpdateStep /\ pic'.IRR # pic.IRR)) =>
        \E n \in IntN :
            /\ UpdateStep /\ last'.arg = n
            /\ bit(pic.IRR, n)
            /\ \A j \in IntN : bit(pic'.IRR, j) <=> (j # n /\ bit(pic.IRR, j))
            /\ pic'.ISR = 2 ^ n
            /\ pic'.EOI = 0]_vars

\* C5 witness: line last.arg was dispatched: it left IRR, it is the bit of
\* ISR, and EOI reads 0.
C5_Witness ==
    /\ last.op = "update" /\ last.result = "dispatch"
    /\ pic.ISR = 2 ^ last.arg /\ ~bit(pic.IRR, last.arg) /\ pic.EOI = 0

\* C6: when the selected line's vector register holds a reserved ID,
\* update() returns reserved-interrupt and dispatches nothing: IP and the
\* stack are unchanged.
C6_ReservedInterrupt ==
    [][UpdateStep =>
        /\ (pic.ISR = 0 /\ FLAGS.interrupt
            /\ \E n \in IntN : LowestPending(pic, n) /\ pic.INT[n] \in interruptPattern)
              => last'.result = "reserved-interrupt"
        /\ last'.result = "reserved-interrupt" =>
              /\ registers'.IP = registers.IP
              /\ StackSame
              /\ pic'.ISR = pic.ISR]_vars

\* C6 witness: update() refused a requested, unmasked line whose vector
\* register holds a reserved ID.
C6_Witness ==
    /\ last.op = "update" /\ last.result = "reserved-interrupt"
    /\ last.arg \in IntN /\ Pending(pic, last.arg)
    /\ pic.INT[last.arg] \in interruptPattern

\* C7 as stated: a dispatch of line n with vector ID v pushes FLAGS, clears
\* IF, pushes IP and sets IP to the word at v * 4: afterwards IF = 0, the top
\* of the stack is the old IP and the old FLAGS lies below it.
C7_Original ==
    [][(UpdateStep /\ last'.result = "dispatch") =>
        /\ ~FLAGS'.interrupt
        /\ TopOfStack(registers', memory', 0) = registers.IP
        /\ TopOfStack(registers', memory', 1) = encodeFlags(FLAGS)
        /\ registers'.SP = registers.SP - 4
        /\ registers'.IP =
              getMemory(memory, pic.INT[last'.arg] * INTERRUPT_VECTOR_ADDRESS_SIZE,
                        "word").value]_vars

\* C8: request(n) sets bit n of IRR and cancel(n) clears it, for n in 0..7;
\* every other IRR bit and IMR, ISR, EOI, INT0..INT7 stay as they were.
C8_RequestCancelFrame ==
    [][/\ last'.op = "request" =>
            /\ \A j \in IntN : bit(pic'.IRR, j) <=> (j = last'.arg \/ bit(pic.IRR, j))
            /\ pic'.IRR \in 0..255
            /\ pic' = [pic EXCEPT !.IRR = pic'.IRR]
       /\ last'.op = "cancel" =>
            /\ \A j \in IntN : bit(pic'.IRR, j) <=> (j # last'.arg /\ bit(pic.IRR, j))
            /\ pic'.IRR \in 0..255
            /\ pic' = [pic EXCEPT !.IRR = pic'.IRR]]_vars

\* C8 witness: line 7 was requested while lines 0..6 were pending already.
C8_Witness == last.op = "request" /\ last.arg = 7 /\ pic.IRR = 255

\* where the CPU is once `execute` has run the effect of INT n
EffectLabel(n) ==
    CASE n = 0 -> "int.0"
      [] n = 3 -> "int.3"
      [] n \in {6, 7} -> "copy.FLAGS.id"
      [] OTHER -> "idle"

\* C9: IF = 0 blocks only the hardware dispatch. At its execute phase INT n
\* can always run, and what it runs depends on n alone, IF being 0 or 1:
\* halt for 0, breakpoint for 3, the console routine for 6 and 7, and for
\* every other n the interrupt routine found in the vector table at n * 4,
\* with FLAGS and the return address pushed. An update() of the PIC with
\* IF = 0 dispatches nothing and leaves the CPU and the memory alone.
C9_IFBlocksOnlyHardware ==
    /\ [](pc = "execute" =>
            CASE number = 0 -> ENABLED INT_Halt
              [] number = 3 -> ENABLED INT_Breakpoint
              [] number \in {6, 7} -> ENABLED INT_SaveFlags
              [] OTHER -> ENABLED INT_StartInterrupt)
    /\ [][/\ (pc = "execute" /\ last'.op = "INT") =>
               /\ pc' = EffectLabel(number)
               /\ last'.result = "interrupt" =>
                    /\ registers'.IP =
                          getMemory(memory', number * INTERRUPT_VECTOR_ADDRESS_SIZE,
                                    "word").value
                    /\ TopOfStack(registers', memory', 0) = registers.IP
                    /\ TopOfStack(registers', memory', 1) = encodeFlags(FLAGS)
          /\ (UpdateStep /\ ~FLAGS.interrupt) =>
               /\ last'.result # "dispatch"
               /\ registers' = registers
               /\ memory' = memory
               /\ FLAGS' = FLAGS]_vars

\* C9 witness: INT 9 was executed with IF = 0 and entered the routine of
\* vector 9, while the request of hardware line 0 is still waiting.
C9_Witness ==
    /\ last.op = "INT" /\ last.arg = 9 /\ last.result = "interrupt"
    /\ ~entry.FLAGS.interrupt
    /\ registers.IP = Handler(9)
    /\ Pending(pic, 0) /\ pic.ISR = 0

\* INT 6 is between its push of FLAGS and its pop of FLAGS
InConsoleRead ==
    /\ number = 6
    /\ pc \in {"update.FLAGS", "int.6", "copy.BX.ri", "console.read", "update.id",
               "mar.set", "mbr.set"}

\* INT 6 has completed: FLAGS is popped back and the instruction returns
ConsoleReadDone == number = 6 /\ pc = "copy.id.FLAGS"

\* the address in BX is one of the two stack cells that hold the pushed FLAGS
BXInSavedFlags ==
    entry.registers.BX \in {entry.registers.SP - 2, entry.registers.SP - 1}

\* C10 as stated: when INT 6 completes after the consumer supplied the byte
\* c, the byte at the address in BX is c, FLAGS and SP are what they were
\* before the instruction, and IF is 0 from the push of FLAGS to its pop.
C10_Original ==
    /\ ConsoleReadDone =>
          /\ Cell(memory, entry.registers.BX) = local.char
          /\ FLAGS = entry.FLAGS
          /\ registers.SP = entry.registers.SP
    /\ InConsoleRead => ~FLAGS.interrupt

\* C10, amended: when INT 6 completes after the consumer supplied the byte
\* c, the byte at the address in BX is c and SP is what it was before the
\* instruction; FLAGS is what it was before the instruction provided BX does
\* not point at the two stack cells the instruction saved FLAGS in; IF is 0
\* from the push of FLAGS to its pop.
C10_ConsoleReadRestores ==
    /\ ConsoleReadDone =>
          /\ Cell(memory, entry.registers.BX) = local.char
          /\ Is8bits(local.char)
          /\ registers.SP = entry.registers.SP
          /\ ~BXInSavedFlags => FLAGS = entry.FLAGS
    /\ InConsoleRead => ~FLAGS.interrupt

\* C10 witness: INT 6 completed with IF = 1 before it, the consumer gave
\* "A", the byte went to 1000h and FLAGS is back with IF = 1.
C10_Witness ==
    /\ ConsoleReadDone
    /\ entry.FLAGS.interrupt
    /\ local.char = 65
    /\ entry.registers.BX = 4096
    /\ Cell(memory, 4096) = 65
    /\ FLAGS.interrupt

\* the events of the running instruction of the given type, in order
EventsOf(type) == SelectSeq(events, LAMBDA e : e.type = type)

\* the last event the generator yielded
LastEvent == events[Len(events)]

\* memory once the console routine has pushed FLAGS
MemoryAfterPush ==
    pushToStack(entry.registers, entry.memory, encodeFlags(entry.FLAGS)).memory

\* C11: during INT 6 the generator yields console.read and then stays
\* there: no memory write, no register or flag change and no further event
\* until the consumer resumes it; a resume with an 8-bit byte is followed by
\* the event carrying that byte, and the byte later written to [BX] is that
\* byte, the only memory cell the write changes.
C11_ConsoleReadPauses ==
    /\ [](pc = "console.read" =>
            /\ LastEvent.type = "console.read"
            /\ memory = MemoryAfterPush)
    /\ [][/\ pc = "console.read" =>
               /\ memory' = memory /\ registers' = registers /\ FLAGS' = FLAGS
               /\ \/ events' = events
                  \/ /\ pc' = "update.id"
                     /\ local'.char \in 0..255
                     /\ events' = Append(events, Ev("update.id", local'.char))
          /\ (number = 6 /\ pc = "mbr.set" /\ pc' = "copy.id.FLAGS") =>
               /\ Len(EventsOf("update.id")) = 1
               /\ Cell(memory', entry.registers.BX) = EventsOf("update.id")[1].value
               /\ \A a \in (DOMAIN memory \cup DOMAIN memory') \ {entry.registers.BX} :
                     Cell(memory', a) = Cell(memory, a)]_vars

\* C11 witness: INT 6 asked for a character, was resumed with "A" and wrote
\* it at the address in BX.
C11_Witness ==
    /\ ConsoleReadDone
    /\ Len(EventsOf("console.read")) = 1
    /\ EventsOf("update.id") = <<Ev("update.id", 65)>>
    /\ Cell(memory, entry.registers.BX) = 65
    /\ Cell(entry.memory, entry.registers.BX) # 65

\* INT 7 has completed: FLAGS is popped back and the instruction returns
ConsoleWriteDone == number = 7 /\ pc = "copy.id.FLAGS"

\* C12: when INT 7 completes it has emitted exactly AL console.write events,
\* the k-th carrying the memory byte at BX + k - 1 (none when AL = 0), and
\* AL, BX, SP and FLAGS are what they were before the instruction.
C12_ConsoleWriteString ==
    ConsoleWriteDone =>
        /\ Len(EventsOf("console.write")) = AL(entry.registers)
        /\ \A k \in 1..Len(EventsOf("console.write")) :
              EventsOf("console.write")[k].value =
                  Cell(memory, entry.registers.BX + k - 1)
        /\ AL(registers) = AL(entry.registers)
        /\ registers.BX = entry.registers.BX
        /\ registers.SP = entry.registers.SP
        /\ FLAGS = entry.FLAGS

\* C12 witness: INT 7 with AL = 2 and BX = 1000h wrote "H" then "i".
C12_Witness ==
    /\ ConsoleWriteDone
    /\ AL(entry.registers) = 2
    /\ entry.registers.BX = 4096
    /\ EventsOf("console.write") = <<Ev("console.write", 72), Ev("console.write", 105)>>

\* C13: INT 0 makes execute return false right after its int.0 event: the
\* run is over, no event follows, and the instruction has pushed nothing
\* and changed no flag.
C13_HaltStops ==
    /\ []((pc = "halted" /\ last.result = "int.0") =>
            /\ LastEvent.type = "int.0"
            /\ registers.SP = entry.registers.SP
            /\ memory = entry.memory
            /\ FLAGS = entry.FLAGS)
    /\ [][/\ (pc = "int.0" /\ last'.op = "INT") =>
               pc' = "halted" /\ events' = events
          /\ pc = "halted" =>
               /\ pc' = "halted" /\ events' = events
               /\ registers' = registers /\ FLAGS' = FLAGS /\ memory' = memory]_vars

\* C13 witness: INT 0 was executed with IF = 1 and the run has ended.
C13_Witness ==
    /\ pc = "halted" /\ last.result = "int.0" /\ number = 0
    /\ entry.FLAGS.interrupt
    /\ FLAGS.interrupt

\* the registers once the two bytes of the instruction are fetched
AfterFetch(regs, mem) ==
    [regs EXCEPT !.IP = regs.IP + 2,
                 !.IR = Cell(mem, regs.IP),
                 !.ri = joinLowHigh(Cell(mem, regs.IP + 1), splitLowHigh(regs.ri)[2])]

\* C14: INT 3 emits the breakpoint event and execution continues; apart
\* from the fetch of its two bytes it changes no register, flag, stack cell
\* or memory cell.
C14_BreakpointFrame ==
    /\ []((number = 3 /\ pc = "int.3") =>
            /\ LastEvent.type = "int.3"
            /\ registers = AfterFetch(entry.registers, entry.memory)
            /\ FLAGS = entry.FLAGS
            /\ memory = entry.memory)
    /\ [][(pc = "int.3" /\ last'.op = "INT") =>
            /\ pc' = "idle"
            /\ registers' = registers /\ FLAGS' = FLAGS /\ memory' = memory]_vars

\* C14 witness: INT 3 ran with IF = 1 and an empty stack, and execution
\* went on at the next instruction with both as they were.
C14_Witness ==
    /\ pc = "idle" /\ last.op = "INT" /\ last.arg = 3 /\ last.result = "return"
    /\ registers.IP = INITIAL_IP + 2
    /\ registers.SP = MEMORY_SIZE
    /\ FLAGS.interrupt

\* the phases every INT instruction announces, in order
Phases == <<"cycle.start", "decode", "decoded", "execute">>

\* C15: the events of one INT instruction start with cycle.start, decode,
\* the decoded phase and the execute phase, in that order; the opcode is in
\* IR when decode is announced and the operand is fetched when the execute
\* phase is announced; the effect (int.N, stack, console, memory) comes
\* only after the execute phase.
C15_PhaseOrder ==
    pc \notin {"idle", "thrown"} =>
        /\ \A k \in 1..Len(events) :
              IF k <= 4 THEN events[k].type = Phases[k]
              ELSE events[k].type \notin {"cycle.start", "decode", "decoded", "execute"}
        /\ Len(events) = 1 => registers = entry.registers
        /\ Len(events) \in {2, 3} =>
              registers = [entry.registers EXCEPT
                              !.IP = entry.registers.IP + 1,
                              !.IR = Cell(entry.memory, entry.registers.IP)]
        /\ Len(events) = 4 => registers = AfterFetch(entry.registers, entry.memory)
        /\ Len(events) <= 4 => FLAGS = entry.FLAGS /\ memory = entry.memory
        /\ Len(events) >= 1

\* C15 witness: INT 7 is writing its first character, after the four phase
\* events, the saving of FLAGS and the reading of BX and AL.
C15_Witness ==
    /\ pc = "console.write" /\ number = 7
    /\ Len(events) = 11
    /\ events[5].type = "copy.FLAGS.id"

\* the statement occupies addresses: an instruction, DB or DW
Consuming(statement) == statement.type \notin {"EQU", "end", "origin-change"}

\* the statement the step hands to the callback, and its place in the list
Analyzed == analysis'.statements[Len(analysis'.statements)]
AnalyzeStep == Len(analysis'.statements) = Len(analysis.statements) + 1

\* the addresses [start, start + length) of the k-th statement
RangeOf(k) ==
    analysis.statements[k].start ..
        analysis.statements[k].start + analysis.statements[k].length - 1

ConsumingStatements ==
    {k \in 1..Len(analysis.statements) : Consuming(analysis.statements[k])}

Accepted == analysis.result = "success"

\* the statement of the step has an origin and would occupy an address that
\* an earlier statement occupies
WouldOverlap ==
    /\ AnalyzeStep /\ Consuming(Analyzed)
    /\ analysis.pointer # NullPointer
    /\ (analysis.pointer .. analysis.pointer + Analyzed.length - 1)
           \cap analysis.occupiedMemory # {}

\* the step reports the given error for its statement
Reports(code) ==
    /\ Len(analysis'.errors) = Len(analysis.errors) + 1
    /\ analysis'.errors[Len(analysis'.errors)].code = code
    /\ analysis'.errors[Len(analysis'.errors)].at = Len(analysis'.statements)

\* in an accepted list the ranges are pairwise disjoint and make up the
\* occupied addresses
DisjointAndExact ==
    Accepted =>
        /\ analysis.errors = <<>>
        /\ \A i, j \in ConsumingStatements : i # j => RangeOf(i) \cap RangeOf(j) = {}
        /\ analysis.occupiedMemory = UNION {RangeOf(k) : k \in ConsumingStatements}

\* C16 as stated: for every accepted statement list the ranges
\* [start, start + length) of the address-consuming statements are pairwise
\* disjoint and the occupied addresses are exactly their union; a statement
\* that would occupy an address an earlier statement occupies is reported
\* with occupied-address.
C16_Original ==
    /\ []DisjointAndExact
    /\ [][WouldOverlap => Reports("occupied-address")]_vars

\* C16, amended: for every accepted statement list the ranges are pairwise
\* disjoint and the occupied addresses are exactly their union; a statement
\* that passes the range test (start + length <= 3FFFh) and would occupy an
\* address an earlier statement occupies is reported with occupied-address,
\* and the list is not accepted.
C16_DisjointRanges ==
    /\ []DisjointAndExact
    /\ [][(WouldOverlap /\ analysis.pointer + Analyzed.length <= MAX_MEMORY_ADDRESS) =>
             Reports("occupied-address")]_vars
    /\ []((analysis.result # "running" /\ analysis.errors # <<>>) => ~Accepted)

\* C16 witness: ORG 3FFCh, DW, ORG 3FFCh, DB: the DB would lie on the first
\* byte of the DW; the result is the occupied-address error at 3FFCh.
C16_Witness ==
    /\ analysis.result = "failure"
    /\ Len(analysis.statements) = 4
    /\ analysis.statements[2].type = "DW" /\ analysis.statements[2].start = 16380
    /\ analysis.statements[4].type = "DB" /\ analysis.statements[4].start = 16380
    /\ analysis.errors = <<[value |-> 16380, code |-> "occupied-address", at |-> 4]>>

\* C17 as stated: a statement is rejected with instruction-out-of-range
\* exactly when one of its bytes would lie above 3FFFh (a DW at 3FFEh is
\* accepted, a DW at 3FFFh is rejected).
C17_Original ==
    [][(AnalyzeStep /\ Consuming(Analyzed) /\ analysis.pointer # NullPointer) =>
          (Reports("instruction-out-of-range") <=>
              analysis.pointer + Analyzed.length - 1 > MAX_MEMORY_ADDRESS)]_vars

\* no ORG comes before the k-th statement
BeforeFirstOrg(k) ==
    \A j \in 1..(k - 1) : analysis.statements[j].type # "origin-change"

\* the places of the statements reported with the given error
ReportedAt(code) ==
    {analysis.errors[e].at : e \in {x \in 1..Len(analysis.errors) : analysis.errors[x].code = code}}

\* C18: the statements reported with missing-org are exactly the
\* instructions, DBs and DWs that come before the first ORG, one error for
\* each; a list with such a statement is not accepted; EQU and END are never
\* reported, with or without an ORG before them.
C18_MissingOrg ==
    /\ [](/\ ReportedAt("missing-org") =
                {k \in ConsumingStatements : BeforeFirstOrg(k)}
          /\ \A e, f \in 1..Len(analysis.errors) :
                analysis.errors[e].at = analysis.errors[f].at => e = f
          /\ (Accepted => \A k \in ConsumingStatements : ~BeforeFirstOrg(k)))
    /\ [][(AnalyzeStep /\ Analyzed.type \in {"EQU", "end"}) =>
             analysis'.errors = analysis.errors]_vars

\* C18 witness: DB, MOV, ORG 3FFCh, DW: the DB and the MOV are each
\* reported, the DW is not, and the list is rejected.
C18_Witness ==
    /\ analysis.result = "failure"
    /\ Len(analysis.statements) = 4
    /\ analysis.statements[1].type = "DB"
    /\ analysis.statements[2].type = "MOV"
    /\ analysis.statements[3].type = "origin-change"
    /\ analysis.statements[4].type = "DW"
    /\ analysis.errors = <<[value |-> 0, code |-> "missing-org", at |-> 1],
                           [value |-> 0, code |-> "missing-org", at |-> 2]>>

\* the place of the most recent ORG before the k-th statement
LastOrg(k) ==
    CHOOSE j \in 1..(k - 1) :
        /\ analysis.statements[j].type = "origin-change"
        /\ \A i \in (j + 1)..(k - 1) : analysis.statements[i].type # "origin-change"

\* the sum of the lengths of the address-consuming statements from place j
\* up to place k - 1
RECURSIVE LengthsBetween(_, _)
LengthsBetween(j, k) ==
    IF j >= k THEN 0
    ELSE (IF Consuming(analysis.statements[j]) THEN analysis.statements[j].length ELSE 0)
         + LengthsBetween(j + 1, k)

\* DB, DW or instruction
KindOf(statement) ==
    CASE statement.type = "DB" -> "DB"
      [] statement.type = "DW" -> "DW"
      [] OTHER -> "instruction"

\* C19: in an accepted list each address-consuming statement starts at the
\* address of the most recent ORG before it plus the lengths of the
\* address-consuming statements between that ORG and it; the labels mapped
\* are those of the address-consuming statements, each to the start address
\* and the kind of its statement.
C19_StartsAndLabels ==
    Accepted =>
        /\ \A k \in ConsumingStatements :
              analysis.statements[k].start =
                  analysis.statements[LastOrg(k)].newAddress + LengthsBetween(LastOrg(k), k)
        /\ DOMAIN analysis.labelAddresses = LabelsOf(analysis.statements)
        /\ \A k \in ConsumingStatements :
              analysis.statements[k].label # NoLabel =>
                  analysis.labelAddresses[analysis.statements[k].label] =
                      [type |-> KindOf(analysis.statements[k]),
                       address |-> analysis.statements[k].start]

\* C19 witness: ORG 3FFCh, DATO: DB, LAZO: DW, END is accepted with DATO at
\* 3FFCh and LAZO at 3FFDh.
C19_Witness ==
    /\ Accepted
    /\ Len(analysis.statements) = 4
    /\ analysis.statements[1].newAddress = 16380
    /\ analysis.statements[4].type = "end"
    /\ DOMAIN analysis.labelAddresses = {"DATO", "LAZO"}
    /\ analysis.labelAddresses["DATO"] = [type |-> "DB", address |-> 16380]
    /\ analysis.labelAddresses["LAZO"] = [type |-> "DW", address |-> 16381]

\* the reference: the n-bit result of the call recorded in `last` and the
\* flags it leaves
Bits(size) == IF size = "byte" THEN 8 ELSE 16

Exact(call) ==
    CASE call.op = "ADD" -> call.arg.left + call.arg.right
      [] call.op = "ADC" -> call.arg.left + call.arg.right + call.arg.carry
      [] call.op = "SUB" -> call.arg.left - call.arg.right
      [] call.op = "SBB" -> call.arg.left - call.arg.right - call.arg.carry

\* two's complement value of an n-bit pattern
Signed(value, size) ==
    IF value >= 2 ^ (Bits(size) - 1) THEN value - 2 ^ Bits(size) ELSE value

ExactSigned(call) ==
    CASE call.op = "ADD" -> Signed(call.arg.left, call.arg.size) + Signed(call.arg.right, call.arg.size)
      [] call.op = "ADC" -> Signed(call.arg.left, call.arg.size) + Signed(call.arg.right, call.arg.size) + call.arg.carry
      [] call.op = "SUB" -> Signed(call.arg.left, call.arg.size) - Signed(call.arg.right, call.arg.size)
      [] call.op = "SBB" -> Signed(call.arg.left, call.arg.size) - Signed(call.arg.right, call.arg.size) - call.arg.carry

Stored(call) == Exact(call) % (2 ^ Bits(call.arg.size))

Reference(call) ==
    [carry |-> Exact(call) # Stored(call),
     zero |-> Stored(call) = 0,
     sign |-> Stored(call) >= 2 ^ (Bits(call.arg.size) - 1),
     overflow |-> ExactSigned(call) # Signed(Stored(call), call.arg.size)]

\* C20 as stated: after every ADD, ADC, SUB and SBB on 8-bit or 16-bit
\* operands the stored result is the n-bit result and CF, OF, ZF and SF are
\* those of the reference: SF is the top bit of the stored result and ZF is
\* set exactly when the stored result is 0.
C20_Original ==
    last.op \in ArithmeticOperations =>
        /\ alu.result = Stored(last)
        /\ alu.flags = Reference(last)

\* C21 as stated: ADD, ADC, SUB and SBB on n-bit operands return the exact
\* result modulo 2^n, a value in [0, 2^n - 1]; CF is set exactly when the
\* exact unsigned result is outside [0, 2^n - 1] and OF exactly when the
\* exact signed result is outside [-2^(n-1), 2^(n-1) - 1].
C21_Original ==
    last.op \in ArithmeticOperations =>
        /\ last.result = Exact(last) % (2 ^ Bits(last.arg.size))
        /\ last.result \in 0..(2 ^ Bits(last.arg.size) - 1)
        /\ alu.flags.carry <=> Exact(last) \notin 0..(2 ^ Bits(last.arg.size) - 1)
        /\ alu.flags.overflow <=>
              ExactSigned(last) \notin
                  (-(2 ^ (Bits(last.arg.size) - 1)))..(2 ^ (Bits(last.arg.size) - 1) - 1)

\* the n-bit result of the logical operation recorded in `last`
LogicalReference(call) ==
    IF call.op = "NOT" THEN 2 ^ Bits(call.arg.size) - 1 - call.arg.right
    ELSE Bitwise(call.op, call.arg.left, call.arg.right, 0)

\* C22 as stated: AND, OR, XOR and NOT on n-bit operands return the bitwise
\* result on n bits, a value in [0, 2^n - 1], with CF = 0, OF = 0, SF the
\* bit n - 1 of the result and ZF set exactly when the result is 0.
C22_Original ==
    last.op \in LogicalOperations =>
        /\ last.result = LogicalReference(last)
        /\ last.result \in 0..(2 ^ Bits(last.arg.size) - 1)
        /\ alu.flags = [carry |-> FALSE,
                        zero |-> LogicalReference(last) = 0,
                        sign |-> bit(LogicalReference(last), Bits(last.arg.size) - 1),
                        overflow |-> FALSE]

\* C23: for size n in {8, 16}, fromUnsigned(v, n) of v in [0, 2^n - 1] is a
\* Byte whose unsigned view is v; fromSigned(s, n) of s in
\* [-2^(n-1), 2^(n-1) - 1] is a Byte whose signed view is s and whose
\* unsigned view is s modulo 2^n; both throw for every other value; no Byte
\* holds a value outside [0, 2^n - 1].
C23_ByteRoundTrip ==
    /\ last.op = "fromUnsigned" =>
          IF last.arg.value \in 0..(2 ^ last.arg.size - 1)
          THEN /\ returned.type = "Byte"
               /\ returned.size = last.arg.size
               /\ unsigned(returned) = last.arg.value
          ELSE returned = Error("RangeError")
    /\ last.op = "fromSigned" =>
          IF last.arg.value \in (-(2 ^ (last.arg.size - 1)))..(2 ^ (last.arg.size - 1) - 1)
          THEN /\ returned.type = "Byte"
               /\ returned.size = last.arg.size
               /\ signed(returned) = last.arg.value
               /\ unsigned(returned) = last.arg.value % (2 ^ last.arg.size)
          ELSE returned = Error("RangeError")
    /\ returned.type = "Byte" => returned.value \in 0..(2 ^ returned.size - 1)

\* C23 witness: fromSigned(-128, 8) is the Byte 80h.
C23_Witness ==
    /\ last.op = "fromSigned" /\ last.arg = [value |-> -128, size |-> 8]
    /\ returned = NewByte(128, 8)

\* the operands are one immediate operand
OneImmediate(operands) == Len(operands) = 1 /\ operands[1].type = "number-expression"

\* the operands are one immediate operand that evaluates to 0..255
ValidInterrupt(operands) ==
    OneImmediate(operands) /\ evaluate(operands[1].value) \in 0..255

\* the call threw a compile error
ThrewCompilerError ==
    returned.type = "error" /\ "name" \in DOMAIN returned /\ returned.name = "CompilerError"

\* C24: an INT instruction is accepted exactly when it has one immediate
\* operand that evaluates to an integer in 0..255: validation succeeds exactly
\* for one immediate operand, evaluation of a validated instruction succeeds
\* exactly when the operand is in 0..255 and then sets the 8-bit value of the
\* operand, with encoded length 2; every rejection is a compile error and
\* leaves the instruction without a value.
C24_IntAccepted ==
    /\ instruction.type = "IntInstruction" =>
          /\ instruction.value # null =>
                /\ ValidInterrupt(instruction.operands)
                /\ instruction.value = NewByte(evaluate(instruction.operands[1].value), 8)
                /\ length(instruction) = 2
          /\ last.op = "validate" /\ last.arg.initialValue = null =>
                IF OneImmediate(instruction.operands)
                THEN last.result = "ok" /\ instruction.initialValue # null
                ELSE ThrewCompilerError /\ instruction.value = null
          /\ (/\ last.op = "evaluateExpressions"
              /\ last.arg.initialValue # null
              /\ last.arg.value = null) =>
                IF ValidInterrupt(instruction.operands)
                THEN last.result = "ok" /\ instruction.value # null
                ELSE ThrewCompilerError /\ instruction.value = null
    /\ last.op = "validateIntInstruction" =>
          IF Len(last.arg.operands) = 1
                /\ last.arg.operands[1].type \in {"number-literal", "label", "unary-operation"}
          THEN /\ returned.type = "INT"
               /\ returned.meta.length = 2
               /\ returned.interruption = last.arg.operands[1]
          ELSE ThrewCompilerError

\* C24 witness: INT 255 has been validated and evaluated to the byte FFh.
C24_Witness ==
    /\ last.op = "evaluateExpressions"
    /\ instruction.type = "IntInstruction"
    /\ instruction.operands = <<NumberExpressionOperand(NumberLiteral(255))>>
    /\ instruction.value = NewByte(255, 8)

\* INT 256 has been validated and its evaluation rejected as invalid-interrupt.
C24_Rejected ==
    /\ last.op = "evaluateExpressions"
    /\ instruction.type = "IntInstruction"
    /\ instruction.operands = <<NumberExpressionOperand(NumberLiteral(256))>>
    /\ returned = CompilerError("invalid-interrupt")
    /\ instruction.value = null

\* a memory reference: a bracketed address, [BX], or a bare DB / DW label
MemoryReference(operand) ==
    \/ operand.type = "address"
    \/ /\ operand.type = "label"
       /\ ~operand.offset
       /\ get(LabelTypes, operand.value) \in {"DB", "DW"}

\* C25: validateBinaryInstruction rejects with double-memory-access every
\* instruction whose two operands are both memory references (a bracketed
\* address, [BX], or a bare DB / DW label), and no instruction it returns has
\* both out and src of type memory.
C25_NoDoubleMemory ==
    last.op = "validateBinaryInstruction" =>
        /\ (/\ Len(last.arg.operands) = 2
            /\ MemoryReference(last.arg.operands[1])
            /\ MemoryReference(last.arg.operands[2])) =>
                returned = CompilerError("double-memory-access")
        /\ returned.type # "error" =>
                ~(returned.out.type = "memory" /\ returned.src.type = "memory")

\* C25 witness: MOV DATO, [BX] with DATO a DB is rejected as a double memory access.
C25_Witness ==
    /\ last.op = "validateBinaryInstruction"
    /\ last.arg.operands = <<Label("DATO", FALSE), IndirectAddress("auto")>>
    /\ returned = CompilerError("double-memory-access")

\* the size an operand is known to have: that of a register, of a BYTE PTR /
\* WORD PTR address, of a bare DB / DW label; "unknown" otherwise
KnownSize(operand) ==
    IF operand.type = "register"
    THEN IF operand.value \in {"AX", "BX", "CX", "DX", "SP", "IP"} THEN "word" ELSE "byte"
    ELSE IF operand.type = "address"
    THEN IF operand.size = "auto" THEN "unknown" ELSE operand.size
    ELSE IF operand.type = "label" /\ ~operand.offset
    THEN IF get(LabelTypes, operand.value) = "DB" THEN "byte"
         ELSE IF get(LabelTypes, operand.value) = "DW" THEN "word" ELSE "unknown"
    ELSE "unknown"

\* C26 (as claimed): validateBinaryInstruction rejects with size-mismatch
\* every instruction with a register operand whose two operands have
\* different known sizes, whichever of the two is the destination, and in
\* every instruction it returns opSize is the size of each operand that has a
\* known size.
C26_Original ==
    (last.op = "validateBinaryInstruction" /\ Len(last.arg.operands) = 2) =>
        LET out == last.arg.operands[1]
            src == last.arg.operands[2]
        IN  /\ (/\ "register" \in {out.type, src.type}
                /\ KnownSize(out) # "unknown"
                /\ KnownSize(src) # "unknown"
                /\ KnownSize(out) # KnownSize(src)) =>
                    returned = CompilerError("size-mismatch")
            /\ returned.type # "error" =>
                    /\ KnownSize(out) # "unknown" => returned.opSize = KnownSize(out)
                    /\ KnownSize(src) # "unknown" => returned.opSize = KnownSize(src)

\* the same with a register as the destination
C26_RegisterDestination ==
    (/\ last.op = "validateBinaryInstruction"
     /\ Len(last.arg.operands) = 2
     /\ last.arg.operands[1].type = "register") => C26_Original

\* the same with a data label as the destination
C26_LabelDestination ==
    (/\ last.op = "validateBinaryInstruction"
     /\ Len(last.arg.operands) = 2
     /\ last.arg.operands[1].type = "label") => C26_Original

\* C27 (as claimed): a unary instruction is given length 1 when its operand
\* is a register or a sized [BX] and length 3 when it is a sized direct
\* address or a data label; an address without BYTE PTR / WORD PTR and an
\* immediate operand are rejected.
C27_Original ==
    (last.op = "validateUnaryInstruction" /\ Len(last.arg.operands) = 1) =>
        LET out == last.arg.operands[1]
        IN  IF out.type = "register" \/ (out.type = "address" /\ out.mode = "indirect"
                                          /\ out.size # "auto")
            THEN returned.type # "error" /\ returned.meta.length = 1
            ELSE IF \/ out.type = "address" /\ out.mode = "direct" /\ out.size # "auto"
                    \/ MemoryReference(out) /\ out.type = "label"
            THEN returned.type # "error" /\ returned.meta.length = 3
            ELSE returned.type = "error"

\* the same for every operand but a register
C27_NotRegister ==
    (/\ last.op = "validateUnaryInstruction"
     /\ Len(last.arg.operands) = 1
     /\ last.arg.operands[1].type # "register") => C27_Original

\* a statement is written on a line after the END of the program
StatementAfterEnd(lines) ==
    \E i, j \in 1..Len(lines) : i < j /\ lines[i] = EndLine /\ lines[j] # <<>>

\* C28 (as claimed): the parser accepts a program only if END is its last
\* statement, and rejects every program with a statement after END.
C28_Original ==
    last.op = "parseTokens" =>
        /\ returned.type = "statements" =>
              /\ returned.statements # <<>>
              /\ returned.statements[Len(returned.statements)].type = "end"
        /\ StatementAfterEnd(last.arg.lines) => returned.type = "error"

\* what holds: a program with a statement after END is rejected, and in an
\* accepted program only the last statement can be END.
C28_NothingAfterEnd ==
    last.op = "parseTokens" =>
        /\ StatementAfterEnd(last.arg.lines) => returned.type = "error"
        /\ returned.type = "statements" =>
              \A k \in 1..(Len(returned.statements) - 1) : returned.statements[k].type # "end"

\* a program without END whose text stops right after an operand is rejected
\* as missing END.
C28_MissingEndDetected ==
    /\ last.op = "parseTokens"
    /\ last.arg = [lines |-> <<<<Keyword("INC"), Keyword("AL")>>>>, newline |-> FALSE]
    /\ returned = CompilerError("The program must end with an END instruction.")

\* the program HLT, its text ending with a new line, is accepted although it
\* has no END.
C28_AcceptedWithoutEnd ==
    /\ last.op = "parseTokens"
    /\ last.arg = [lines |-> <<<<Keyword("HLT")>>>>, newline |-> TRUE]
    /\ returned.type = "statements"
    /\ Len(returned.statements) = 1
    /\ returned.statements[1].type = "instruction"

\* the same label, whatever the case of its letters
SameLabel(a, b) == a = b \/ {a, b} \in {{"X", "x"}, {"Y", "y"}}

\* the label written on a line, NoLabel when it has none
LabelOfLine(line) ==
    IF Len(line) >= 2 /\ line[1].type = "IDENTIFIER" /\ line[2].type = "COLON"
    THEN line[1].lexeme ELSE NoLabel

\* the statement carries a label
Labelled(statement) == "label" \in DOMAIN statement /\ statement.label # NoLabel

\* C29: no accepted program has two statements that carry the same label,
\* labels compared case-insensitively, and a program whose lines define a
\* label twice is rejected.
C29_UniqueLabels ==
    last.op = "parseTokens" =>
        /\ returned.type = "statements" =>
              \A i, j \in 1..Len(returned.statements) :
                  (/\ i # j
                   /\ Labelled(returned.statements[i])
                   /\ Labelled(returned.statements[j])) =>
                      ~SameLabel(returned.statements[i].label, returned.statements[j].label)
        /\ (\E i, j \in 1..Len(last.arg.lines) :
                /\ i < j
                /\ LabelOfLine(last.arg.lines[i]) # NoLabel
                /\ SameLabel(LabelOfLine(last.arg.lines[i]), LabelOfLine(last.arg.lines[j]))) =>
              returned.type = "error"

\* C29 witness: X: HLT followed by x: HLT is rejected as a duplicated label.
C29_Witness ==
    /\ last.op = "parseTokens"
    /\ Len(last.arg.lines) = 3
    /\ LabelOfLine(last.arg.lines[1]) = "X"
    /\ LabelOfLine(last.arg.lines[2]) = "x"
    /\ last.arg.lines[3] = EndLine
    /\ returned = CompilerError("Duplicated label")

\* the labels the program ins defines with EQU
EquDefined(ins) ==
    {ins[k].value.label : k \in {j \in 1..Len(ins) : ins[j].value.type = "EQUDef"}}

\* the EQU labels the definition of l refers to
RefersTo(ins, l) ==
    UNION {ins[k].value.labels :
             k \in {j \in 1..Len(ins) : ins[j].value.type = "EQUDef" /\ ins[j].value.label = l}}
        \cap EquDefined(ins)

\* the labels reached from the set of labels S in one step or more
RECURSIVE ReachedFrom(_, _)
ReachedFrom(ins, S) ==
    LET next == S \cup UNION {RefersTo(ins, l) : l \in S}
    IN  IF next = S THEN S ELSE ReachedFrom(ins, next)

\* l lies on a cycle of references (a reference to itself is one)
OnCycle(ins, l) == l \in ReachedFrom(ins, RefersTo(ins, l))

\* the labels whose definition checkLoopsInLabels turned into an error
FlaggedLabels ==
    {last.arg[k].value.label :
        k \in {j \in 1..Len(last.arg) : returned.ins[j].type = "Left"}}

\* C30: checkLoopsInLabels flags at least one EQU definition if and only if
\* the graph of references between the EQU labels has a cycle (a reference of
\* a label to itself counts), every EQU label on a cycle is flagged, and
\* nothing but EQU definitions is flagged.
C30_CyclesFlagged ==
    last.op = "checkLoopsInLabels" =>
        /\ FlaggedLabels # {} <=> \E l \in EquDefined(last.arg) : OnCycle(last.arg, l)
        /\ \A l \in EquDefined(last.arg) : OnCycle(last.arg, l) => l \in FlaggedLabels
        /\ \A k \in 1..Len(last.arg) :
              returned.ins[k].type = "Left" => last.arg[k].value.type = "EQUDef"

\* C30 witness: A EQU B, B EQU A, C EQU 1: A and B are flagged, C is not.
C30_Witness ==
    /\ last.op = "checkLoopsInLabels"
    /\ last.arg = <<Right(EQUDef("A", {"B"})), Right(EQUDef("B", {"A"})),
                    Right(EQUDef("C", {})), Right(OtherInstruction)>>
    /\ FlaggedLabels = {"A", "B"}

\* A EQU A is flagged: a self-reference counts as a cycle.
C30_SelfReference ==
    /\ last.op = "checkLoopsInLabels"
    /\ last.arg = <<Right(EQUDef("A", {"A"})), Right(OtherInstruction)>>
    /\ FlaggedLabels = {"A"}

\* the step is a call of `name` on the store
StoreStep(name) ==
    /\ last'.op = name
    /\ <<last, memory, registers, returned>>' /= <<last, memory, registers, returned>>

\* a byte access within [0, 3FFFh], a word access within [0, 3FFEh]
InRange(address, size) ==
    address >= 0 /\ address <= (IF size = "byte" THEN 16383 ELSE 16382)

\* C31: memory word accesses are little-endian and bounds-checked: after
\* setMemory(a, word, v) with v in [0, FFFFh], getMemory(a, word) = v,
\* getMemory(a, byte) = v mod 256 and getMemory(a + 1, byte) = v div 256; a byte
\* access outside [0, 3FFFh] and a word access outside [0, 3FFEh] fail and
\* leave memory unchanged.
C31_LittleEndianBounded ==
    [][/\ StoreStep("setMemory") \/ StoreStep("getMemory")
          => /\ (last'.result = "ok") = InRange(last'.arg.address, last'.arg.size)
             /\ last'.result = "error" => memory' = memory
       /\ StoreStep("getMemory") => memory' = memory
       /\ StoreStep("getMemory") /\ last'.result = "ok"
          => returned'.value = getMemory(memory, last'.arg.address, last'.arg.size).value
       /\ StoreStep("setMemory") /\ last'.result = "ok" /\ last'.arg.size = "word"
          => LET a == last'.arg.address
                 v == last'.arg.value
             IN  /\ getMemory(memory', a, "word") = [value |-> v, ok |-> TRUE]
                 /\ getMemory(memory', a, "byte") = [value |-> v % 256, ok |-> TRUE]
                 /\ getMemory(memory', a + 1, "byte") = [value |-> v \div 256, ok |-> TRUE]
                 /\ \A b \in Addresses \ {a, a + 1} : Cell(memory', b) = Cell(memory, b)]_vars

\* a word whose two bytes differ has been written at the last word address,
\* and a word write one address further has failed
C31_Witness ==
    /\ last.op = "setMemory"
    /\ last.arg = [value |-> 258, address |-> MEMORY_SIZE - 1, size |-> "word"]
    /\ last.result = "error"
    /\ Cell(memory, MAX_MEMORY_ADDRESS - 1) = 2
    /\ Cell(memory, MAX_MEMORY_ADDRESS) = 1

\* the byte registers that are the low and the high half of a word register
LowHalf(word) ==
    CASE word = "AX" -> "AL" [] word = "BX" -> "BL" [] word = "CX" -> "CL" [] word = "DX" -> "DL"
HighHalf(word) ==
    CASE word = "AX" -> "AH" [] word = "BX" -> "BH" [] word = "CX" -> "CH" [] word = "DX" -> "DH"
SplitRegisters == {"AX", "BX", "CX", "DX"}

\* C32: byte registers alias the halves of the word registers: setRegister on
\* AL, BL, CL or DL changes only the low byte and on AH, BH, CH or DH only the
\* high byte of the matching word register, no other register changes,
\* getRegister of that byte register returns the written value, and the word
\* register always equals high * 256 + low.
C32_ByteRegistersAlias ==
    [][/\ StoreStep("setRegister") /\ last'.arg.register \in ByteRegisters
          => \E word \in SplitRegisters :
                LET register == last'.arg.register
                    other == IF register = LowHalf(word) THEN HighHalf(word) ELSE LowHalf(word)
                IN  /\ register \in {LowHalf(word), HighHalf(word)}
                    /\ getRegister(registers', register) = last'.arg.value
                    /\ getRegister(registers', other) = getRegister(registers, other)
                    /\ \A r \in DOMAIN registers \ {word} : registers'[r] = registers[r]
                    /\ DOMAIN registers' = DOMAIN registers
       /\ StoreStep("getRegister") =>
             /\ registers' = registers
             /\ returned'.value = getRegister(registers, last'.arg.register)
       /\ \A word \in SplitRegisters :
             registers'[word] = getRegister(registers', HighHalf(word)) * 256
                                + getRegister(registers', LowHalf(word))]_vars

\* AH has been written while AL held another non-zero value and DL was set
C32_Witness ==
    /\ last.op = "setRegister"
    /\ last.arg.register = "AH"
    /\ last.arg.value = 255
    /\ registers.AX = 255 * 256 + 2
    /\ registers.DX = 255

\* the step is a call of `name` on the simulator
SimulatorStep(name) ==
    /\ last'.op = name
    /\ <<last, simulator, returned>>' # <<last, simulator, returned>>

\* the computer loaded last
Loaded(sim) == Len(sim.computers)

\* computer c of the simulator is after the step what it was before, but for
\* the calls `device` has received
SameBut(c, device) ==
    /\ simulator'.computers[c].type = simulator.computers[c].type
    /\ simulator'.computers[c].cpu = simulator.computers[c].cpu
    /\ \A d \in DeviceNames \ {device} :
          simulator'.computers[c].io[d] = simulator.computers[c].io[d]

\* C33: a device poke through the Simulator facade (clock.tick, f10.press,
\* keyboard.readChar, switches.toggle, printer.print, printer.clear,
\* screen.clear) calls only the named device of the loaded computer; a poke on
\* a device that is not connected in the loaded configuration changes nothing
\* in the computer state.
C33_PokeOnlyNamedDevice ==
    [][SimulatorStep("poke") =>
          LET c == Loaded(simulator)
              name == last'.arg.device
              device == simulator.computers[c].io[name]
          IN  /\ simulator'.computer = simulator.computer
              /\ simulator'.handles = simulator.handles
              /\ simulator'.streams = simulator.streams
              /\ Len(simulator'.computers) = Len(simulator.computers)
              /\ \A other \in DOMAIN simulator.computers \ {c} :
                    simulator'.computers[other] = simulator.computers[other]
              /\ SameBut(c, name)
              /\ IF device = null
                 THEN /\ simulator' = simulator
                      /\ last'.result = "warn"
                 ELSE /\ simulator'.computers[c].io[name].type = device.type
                      /\ Len(simulator'.computers[c].io[name].calls) = Len(device.calls) + 1
                      /\ SubSeq(simulator'.computers[c].io[name].calls, 1, Len(device.calls))
                            = device.calls
                      /\ last'.result = "ok"]_vars

\* the printer of the loaded computer has been poked while its keyboard, also
\* connected, has received nothing and its switches are not connected
C33_Witness ==
    /\ last.op = "poke"
    /\ last.arg.device = "printer"
    /\ last.result = "ok"
    /\ simulator.computers[Loaded(simulator)].io.switches = null
    /\ simulator.computers[Loaded(simulator)].io.keyboard # null
    /\ simulator.computers[Loaded(simulator)].io.keyboard.calls = <<>>
    /\ simulator.computers[Loaded(simulator)].io.printer.calls = <<"print">>

\* C34: loadProgram replaces the computer in one step: after it returns,
\* getComputerState, startCPU and every device poke, including pokes made
\* through a devices object obtained before the load, act on the newly created
\* computer and never on the previous one, while an event stream started
\* before the load keeps running on the previous computer.
C34_LoadReplacesComputer ==
    /\ [][SimulatorStep("loadProgram") =>
             /\ Len(simulator'.computers) = Len(simulator.computers) + 1
             /\ simulator'.computer = Loaded(simulator')
             /\ SubSeq(simulator'.computers, 1, Len(simulator.computers)) = simulator.computers
             /\ simulator'.streams = simulator.streams
             /\ simulator'.handles = simulator.handles]_vars
    /\ [][SimulatorStep("getComputerState") =>
             /\ returned'.value = simulator.computers[Loaded(simulator)]
             /\ simulator' = simulator]_vars
    /\ [][SimulatorStep("startCPU") =>
             /\ simulator'.streams[Len(simulator'.streams)].computer = Loaded(simulator)
             /\ simulator'.computers = simulator.computers]_vars
    /\ [][SimulatorStep("poke") =>
             /\ \A c \in DOMAIN simulator.computers \ {Loaded(simulator)} :
                   simulator'.computers[c] = simulator.computers[c]
             /\ simulator.computers[Loaded(simulator)].io[last'.arg.device] # null
                => simulator'.computers[Loaded(simulator)] # simulator.computers[Loaded(simulator)]]_vars
    /\ [][SimulatorStep("next") =>
             LET c == simulator.streams[last'.arg].computer
             IN  /\ simulator'.computers[c].cpu.events = simulator.computers[c].cpu.events + 1
                 /\ simulator'.computers[c].io = simulator.computers[c].io
                 /\ \A other \in DOMAIN simulator.computers \ {c} :
                       simulator'.computers[other] = simulator.computers[other]]_vars

\* after a load, a poke through a devices object obtained before it has reached
\* the new computer, and a stream started before it has run the previous one
C34_Witness ==
    /\ Loaded(simulator) = 2
    /\ simulator.handles # <<>>
    /\ simulator.handles[1].obtained = 1
    /\ simulator.computers[2].io.clock # null
    /\ simulator.computers[2].io.clock.calls = <<"tick">>
    /\ simulator.streams # <<>>
    /\ simulator.streams[1].computer = 1
    /\ simulator.computers[1].cpu.events = 1
    /\ simulator.computers[2].cpu.events = 0

\* the step is a toggle of switch i
Toggled(i) == last'.op = "toggleBit" /\ last'.arg = i /\ keys' # keys

\* C35: toggling switch i changes bit i of PA only when bit i of CA configures
\* that bit as an input, that is CA bit i = 0 since a CA bit equal to 1 means
\* output; toggling a switch whose PA bit is configured as output leaves PA
\* unchanged.
C35_Original ==
    [][\A i \in SwitchBits :
          Toggled(i) =>
              /\ bit(keys'.PA, i) # bit(keys.PA, i) => ~bit(keys.CA, i)
              /\ bit(keys.CA, i) => keys'.PA = keys.PA]_vars

\* what toggleBit does: it inverts bit i of PA exactly when bit i of CA is 1,
\* and no other bit of PA
C35_ToggleWritesWhenCASet ==
    [][\A i \in SwitchBits :
          Toggled(i) =>
              /\ bit(keys'.PA, i) # bit(keys.PA, i) <=> bit(keys.CA, i)
              /\ \A j \in SwitchBits \ {i} : bit(keys'.PA, j) = bit(keys.PA, j)
              /\ bit(keys'.value, i) # bit(keys.value, i)
              /\ keys'.CA = keys.CA]_vars

\* switch 0 has been toggled while bit 0 of CA was 1, and PA has followed
C35_ToggledOutputBit ==
    /\ last.op = "toggleBit"
    /\ last.arg = 0
    /\ bit(keys.CA, 0)
    /\ bit(keys.PA, 0)
    /\ bit(keys.value, 0)

\* C39: after any sequence of switch toggles, changes of CA and resets, every
\* PA bit that is currently configured as driven by the switches equals the
\* current position of its switch. The bits the switches drive are read here
\* as toggleBit reads them: those whose bit of CA is 1.
C39_Original ==
    \A i \in SwitchBits : bit(keys.CA, i) => bit(keys.PA, i) = bit(keys.value, i)

\* the same with the bits of CA read as the documentation words them: 0 is
\* an input, driven by the switches
C39_InputIsZero ==
    \A i \in SwitchBits : ~bit(keys.CA, i) => bit(keys.PA, i) = bit(keys.value, i)

\* as long as CA is not written, the bits with CA = 1 do follow the switches
C39_UntilCAWritten ==
    [][(C39_Original /\ last'.op # "writeCA") => C39_Original']_vars

\* the EQU labels of the program ins that lie on a cycle of references
CycleLabels(ins) == {l \in EquDefined(ins) : OnCycle(ins, l)}

\* C36: loopyEquStatements returns exactly the set of EQU labels that lie on a
\* reference cycle: an EQU label that is only referenced by a cyclic EQU, or
\* that only references one, but is not itself on any cycle, is not reported.
C36_Original ==
    last.op = "checkLoopsInLabels" =>
        loopyEquStatements(makeGraph(last.arg)) = CycleLabels(last.arg)

\* what loopyEquStatements returns: the labels on a cycle and every label
\* reached from one by references; a label that only refers to a cycle is
\* not among them unless it is reached from one
C36_CyclesAndReferenced ==
    last.op = "checkLoopsInLabels" =>
        loopyEquStatements(makeGraph(last.arg))
            = ReachedFrom(last.arg, CycleLabels(last.arg))

\* A EQU A + B, B EQU 1, C EQU A: B is reported though it is on no cycle, and
\* C, which only refers to the cycle, is not
C36_ReferencedReported ==
    /\ last.op = "checkLoopsInLabels"
    /\ last.arg = <<Right(EQUDef("A", {"A", "B"})), Right(EQUDef("B", {})),
                    Right(EQUDef("C", {"A"})), Right(OtherInstruction)>>
    /\ CycleLabels(last.arg) = {"A"}
    /\ FlaggedLabels = {"A", "B"}

\* update() returned an error
UpdateFailed ==
    /\ UpdateStep
    /\ last'.result \in {"reserved-interrupt", "address-out-of-range", "stack-overflow"}

\* C37: whenever update() returns an error (reserved-interrupt, a failed read
\* of the vector table, or a failed push of FLAGS or IP), the PIC registers
\* IRR, ISR and EOI hold the same values as before the call.
C37_Original ==
    [][UpdateFailed =>
          /\ pic'.IRR = pic.IRR
          /\ pic'.ISR = pic.ISR
          /\ pic'.EOI = pic.EOI]_vars

\* the reserved-interrupt error is returned before anything is written
C37_ReservedLeavesPIC ==
    [][UpdateStep /\ last'.result = "reserved-interrupt" => pic' = pic]_vars

\* a push has failed after the line was acknowledged: the line is in service,
\* its request is gone, and IP has not moved
C37_FailedAfterAcknowledge ==
    /\ last.op = "update"
    /\ last.result = "stack-overflow"
    /\ pic.ISR = 2 ^ last.arg
    /\ ~bit(pic.IRR, last.arg)
    /\ registers.IP = INITIAL_IP

\* line n waits to be dispatched: requested, not masked, its vector not
\* reserved, and IF = 1
Waiting(n) ==
    /\ Pending(pic, n)
    /\ pic.INT[n] \notin interruptPattern
    /\ FLAGS.interrupt

\* every interrupt in service is eventually ended
Served == (pic.ISR # 0) ~> (pic.ISR = 0)

\* a line below n that is not masked is requested
LowerRequested(n) ==
    /\ last'.op = "request"
    /\ last'.arg < n
    /\ ~bit(pic.IMR, last'.arg)

\* a line below n comes to be requested and not masked
LowerPendingAgain(n) ==
    \E m \in 0..(n - 1) : ~Pending(pic, m) /\ Pending(pic', m)

\* a line below n is requested, not masked, and its vector is reserved:
\* update() returns reserved-interrupt for it and goes no further
Blocked(n) ==
    \E m \in 0..(n - 1) : Pending(pic, m) /\ pic.INT[m] \in interruptPattern

\* a request on a masked line goes from IRR only by cancel or by a dispatch
MaskedStaysPending ==
    [][\A n \in IntN :
          bit(pic.IRR, n) /\ bit(pic.IMR, n) /\ ~bit(pic'.IRR, n)
             => last'.op = "cancel" /\ last'.arg = n]_vars

\* C38: if line n is requested and unmasked and its vector is not reserved,
\* IF stays 1, update() keeps being called, every in-service interrupt is
\* eventually ended by a write of 20h to EOI, and no lower-numbered unmasked
\* line is requested again, then line n is eventually dispatched (ISR becomes
\* bit n and IRR bit n is cleared); a request on a masked line stays pending
\* in IRR until it is cancelled or dispatched. The first part says that line n
\* cannot wait for ever: either it stops waiting again and again, as it does
\* when it is dispatched, or one of the other conditions fails again and again.
C38_Original ==
    /\ MaskedStaysPending
    /\ \A n \in LiveLines :
          Served => \/ []<>~Waiting(n)
                    \/ []<><<LowerRequested(n)>>_vars

\* C38, amended: the same, provided also that no lower-numbered line that is
\* requested and unmasked holds a reserved vector, and that no lower-numbered
\* line comes to be requested and unmasked again, be it by a request or by a
\* write of IMR.
C38_EventuallyDispatched ==
    /\ MaskedStaysPending
    /\ \A n \in LiveLines :
          Served => \/ []<>~(Waiting(n) /\ ~Blocked(n))
                    \/ []<><<LowerPendingAgain(n)>>_vars

\* with the reserved vectors excluded but only the requests of unmasked lines
\* forbidden, line 1 can still wait for ever: line 0 is requested while it is
\* masked and then unmasked, again and again
C38_RequestsOnly ==
    \A n \in LiveLines :
        Served => \/ []<>~(Waiting(n) /\ ~Blocked(n))
                  \/ []<><<LowerRequested(n)>>_vars

\* line 1 has been dispatched after line 0, requested before it, was served
C38_Witness ==
    /\ last.op = "update"
    /\ last.arg = 1
    /\ pic.ISR = 2
    /\ ~bit(pic.IRR, 1)
    /\ ~bit(pic.IRR, 0)
    /\ ~bit(pic.IMR, 0)
    /\ registers.SP = 0

\* C40: for size in {byte, word} with n = 8 or 16 bits, unsignedToSigned maps
\* every integer u in [0, 2^n - 1] to its two's-complement signed value (u when
\* u < 2^(n-1), u - 2^n otherwise), and signedToUnsigned is its inverse:
\* signedToUnsigned(unsignedToSigned(u)) = u for every such u.
C40_Original ==
    last.op = "unsignedToSigned" =>
        /\ returned.value = Signed(last.arg.n, last.arg.size)
        /\ signedToUnsigned(returned.value, last.arg.size) = last.arg.n

\* what the helpers do on the numbers of a size: unsignedToSigned returns its
\* argument, so the round trip holds, and signedToUnsigned gives a negative s
\* the value MAX_SIGNED_VALUE - s, which is not s + 2^n
C40_AsCoded ==
    /\ last.op = "unsignedToSigned" =>
          /\ returned.value = last.arg.n
          /\ signedToUnsigned(returned.value, last.arg.size) = last.arg.n
    /\ last.op = "signedToUnsigned" /\ last.arg.n < 0 =>
          /\ returned.value = 2 ^ (Bits(last.arg.size) - 1) - 1 - last.arg.n
          /\ returned.value # last.arg.n + 2 ^ Bits(last.arg.size)

\* unsignedToSigned(128, byte) has returned 128
C40_HighBitKept ==
    /\ last.op = "unsignedToSigned"
    /\ last.arg = [n |-> 128, size |-> "byte"]
    /\ returned.value = 128

====
